---- MODULE Spec2Model ----
(***************************************************************************)
(* Model of the resume normalisation pipeline of the browser extension:    *)
(* popup/popup.js (bullet parser, skills normaliser, resume normaliser,    *)
(* draft autosave, editor handlers) and assets/js/storage.js (the          *)
(* chrome.storage wrapper: resume map, current profile, drafts, import).   *)
(*                                                                         *)
(* JavaScript values are tagged records [t, v]; text is a sequence of      *)
(* one-character tokens, so that trimming, splitting, joining and the      *)
(* regular expressions of the source are computed, not assumed.            *)
(***************************************************************************)
EXTENDS Integers, Sequences, FiniteSets, TLC

(***************************************************************************)
(* Characters.  Non-ASCII glyphs are named tokens.                         *)
(***************************************************************************)
BULLET == "u2022"
ENDASH == "u2013"
EMDASH == "u2014"
NL == "\n"
TAB == "\t"
CR == "\r"
SP == " "

LowerChars == {"a","b","c","d","e","f","g","h","i","j","k","l","m",
               "n","o","p","q","r","s","t","u","v","w","x","y","z"}
DigitChars == {"0","1","2","3","4","5","6","7","8","9"}
WsChars == {SP, NL, TAB, CR}

(***************************************************************************)
(* JavaScript values.                                                      *)
(***************************************************************************)
Undef == [t |-> "undefined", v |-> <<>>]
Null == [t |-> "null", v |-> <<>>]
Str(s) == [t |-> "string", v |-> s]
Arr(xs) == [t |-> "array", v |-> xs]
Obj(f) == [t |-> "object", v |-> f]
Num(n) == [t |-> "number", v |-> n]

IsNullish(x) == x.t \in {"undefined", "null"}
IsArray(x) == x.t = "array"
\* a ?? b
Coalesce(a, b) == IF IsNullish(a) THEN b ELSE a
\* JavaScript truthiness of the values the model uses
Truthy(x) == CASE x.t = "undefined" -> FALSE
               [] x.t = "null" -> FALSE
               [] x.t = "string" -> x.v # <<>>
               [] x.t = "number" -> x.v # 0
               [] OTHER -> TRUE
\* a || b
OrElse(a, b) == IF Truthy(a) THEN a ELSE b
\* o.k  (undefined when the key is missing or o is a primitive)
Get(o, k) == IF o.t = "object" /\ k \in DOMAIN o.v THEN o.v[k] ELSE Undef
\* 'k' in o
HasKey(o, k) == o.t = "object" /\ k \in DOMAIN o.v

(***************************************************************************)
(* Text primitives (String.prototype and the regular expressions used).    *)
(***************************************************************************)
RECURSIVE TrimLeft(_)
TrimLeft(s) == IF s # <<>> /\ Head(s) \in WsChars THEN TrimLeft(Tail(s)) ELSE s

RECURSIVE TrimRight(_)
TrimRight(s) == IF s # <<>> /\ s[Len(s)] \in WsChars
                THEN TrimRight(SubSeq(s, 1, Len(s) - 1)) ELSE s

\* String.prototype.trim
TrimText(s) == TrimRight(TrimLeft(s))

RECURSIVE Join(_, _)
\* Array.prototype.join over texts
Join(parts, sep) ==
    IF parts = <<>> THEN <<>>
    ELSE IF Len(parts) = 1 THEN parts[1]
    ELSE parts[1] \o sep \o Join(Tail(parts), sep)

RECURSIVE SplitOn(_, _, _)
\* String.prototype.split on any one character of seps; cur is the piece
\* being accumulated.  Empty pieces are kept, as in JavaScript.
SplitOn(s, seps, cur) ==
    IF s = <<>> THEN <<cur>>
    ELSE IF Head(s) \in seps THEN <<cur>> \o SplitOn(Tail(s), seps, <<>>)
    ELSE SplitOn(Tail(s), seps, Append(cur, Head(s)))

Split(s, seps) == SplitOn(s, seps, <<>>)

RECURSIVE ReplaceCRLF(_)
\* .replace(/\r\n/g, '\n')
ReplaceCRLF(s) ==
    IF s = <<>> THEN <<>>
    ELSE IF Len(s) >= 2 /\ s[1] = CR /\ s[2] = NL
         THEN <<NL>> \o ReplaceCRLF(Tail(Tail(s)))
    ELSE <<Head(s)>> \o ReplaceCRLF(Tail(s))

\* .replace(/c/g, d) for single characters
ReplaceChar(s, c, d) == [i \in 1..Len(s) |-> IF s[i] = c THEN d ELSE s[i]]

RECURSIVE CollapseWs(_)
\* .replace(/\s+/g, ' ')
CollapseWs(s) ==
    IF s = <<>> THEN <<>>
    ELSE IF Head(s) \in WsChars THEN <<SP>> \o CollapseWs(TrimLeft(s))
    ELSE <<Head(s)>> \o CollapseWs(Tail(s))

\* Array.prototype.filter(Boolean) over texts
RECURSIVE FilterNonEmpty(_)
FilterNonEmpty(xs) ==
    IF xs = <<>> THEN <<>>
    ELSE IF Head(xs) = <<>> THEN FilterNonEmpty(Tail(xs))
    ELSE <<Head(xs)>> \o FilterNonEmpty(Tail(xs))

MapTrim(xs) == [i \in 1..Len(xs) |-> TrimText(xs[i])]

(***************************************************************************)
(* Normalization helpers of popup.js.                                      *)
(***************************************************************************)
ObjectObjectText ==
    <<"[","o","b","j","e","c","t",SP,"O","b","j","e","c","t","]">>

RECURSIVE StringOf(_)
RECURSIVE JoinValues(_, _)
\* String(v)
StringOf(v) == CASE v.t = "string" -> v.v
                 [] v.t = "array" -> JoinValues(v.v, <<",">>)
                 [] v.t = "object" -> ObjectObjectText
                 [] v.t = "null" -> <<"n","u","l","l">>
                 [] v.t = "number" -> <<ToString(v.v)>>
                 [] OTHER -> <<"u","n","d","e","f","i","n","e","d">>
\* Array.prototype.join over values: null and undefined elements give ''
JoinValues(xs, sep) ==
    IF xs = <<>> THEN <<>>
    ELSE LET h == IF IsNullish(xs[1]) THEN <<>> ELSE StringOf(xs[1])
         IN IF Len(xs) = 1 THEN h ELSE h \o sep \o JoinValues(Tail(xs), sep)

\* _asStr
AsStr(v) == IF IsNullish(v) THEN <<>> ELSE StringOf(v)
\* _trim
Trim(v) == TrimText(AsStr(v))
\* _nullIfEmpty
NullIfEmpty(v) ==
    LET OrNull(s) == IF s # <<>> THEN Str(s) ELSE Null IN OrNull(Trim(v))

(***************************************************************************)
(* parseBullets.                                                           *)
(***************************************************************************)
BulletMarkers == {BULLET, "-", "*", ENDASH, EMDASH}
StripMarkers == {BULLET, "-", "*"}
\* a class of sentence ends that leaves the colon out
SentenceEndWithoutColon == {".", "!", "?", ";"}
SentenceEnd == {".", "!", "?", ";", ":"}
ShortFragLen == 20

RECURSIVE CountWhile(_, _, _)
\* number of consecutive characters of class cls in s from position i
CountWhile(s, i, cls) ==
    IF i <= Len(s) /\ s[i] \in cls THEN 1 + CountWhile(s, i + 1, cls) ELSE 0

\* /^\s*(?:[•\-\*–—]|\d+[\.\)])\s+/ : length of the match,
\* 0 when the line does not match
BulletStartLen(line) ==
    LET \* w leading blanks, then a marker of m characters, then t blanks
        Matched(w, m, t) == IF m > 0 /\ t > 0 THEN w + m + t ELSE 0
        Marker(w, m) ==
            Matched(w, m, IF m = 0 THEN 0 ELSE CountWhile(line, w + 1 + m, WsChars))
        \* d digits at position p = w + 1
        Digits(w, p, d) ==
            Marker(w, IF p <= Len(line) /\ line[p] \in BulletMarkers THEN 1
                      ELSE IF d > 0 /\ p + d <= Len(line)
                              /\ line[p + d] \in {".", ")"}
                           THEN d + 1
                      ELSE 0)
        Blanks(w) == Digits(w, w + 1, CountWhile(line, w + 1, DigitChars))
    IN Blanks(CountWhile(line, 1, WsChars))

Drop(s, n) == SubSeq(s, n + 1, Len(s))

\* b.replace(/^[•\-\*]\s*/, '')
StripLeadingMarker(b) ==
    IF b # <<>> /\ b[1] \in StripMarkers THEN TrimLeft(Tail(b)) ELSE b

\* the lines pushed for one base line by the inline-bullet expansion
RECURSIVE InlineRest(_)
InlineRest(parts) ==
    IF parts = <<>> THEN <<>>
    ELSE LET Pushed(t) == IF t # <<>> THEN << <<BULLET, SP>> \o t >> ELSE <<>>
         IN Pushed(TrimText(Head(parts))) \o InlineRest(Tail(parts))

ExpandLine(line) ==
    IF \E i \in 1..Len(line) : line[i] = BULLET
    THEN LET First(t) == IF t # <<>> THEN <<t>> ELSE <<>>
             Parts(parts) == First(TrimText(parts[1])) \o InlineRest(Tail(parts))
         IN Parts(Split(line, {BULLET}))
    ELSE <<line>>

RECURSIVE ExpandInline(_)
ExpandInline(baseLines) ==
    IF baseLines = <<>> THEN <<>>
    ELSE ExpandLine(Head(baseLines)) \o ExpandInline(Tail(baseLines))

\* one iteration of the loop over lines: bullets is the list built so far
BulletStep(bullets, line0) ==
    LET Push(cleaned) ==
            IF cleaned # <<>> THEN Append(bullets, cleaned) ELSE bullets
        \* pt is prev.trim()
        Merge(line, prev, pt) ==
            LET prevEndsSentence == pt # <<>> /\ pt[Len(pt)] \in SentenceEnd
                startsLower == line # <<>> /\ line[1] \in LowerChars
                shortFrag == Len(line) < ShortFragLen
            IN IF startsLower \/ (shortFrag /\ ~prevEndsSentence)
               THEN [bullets EXCEPT ![Len(bullets)] =
                        TrimText(CollapseWs(prev \o <<SP>> \o line))]
               ELSE Append(bullets, line)
        \* n is the length of the bulletStart match in line
        Step(line, n) ==
            IF n > 0 THEN Push(TrimText(Drop(line, n)))
            ELSE IF bullets = <<>> THEN <<line>>
            ELSE Merge(line, bullets[Len(bullets)], TrimText(bullets[Len(bullets)]))
        Trimmed(line) == Step(line, BulletStartLen(line))
    IN Trimmed(TrimText(line0))

RECURSIVE BulletLoop(_, _)
BulletLoop(bullets, lines) ==
    IF lines = <<>> THEN bullets
    ELSE BulletLoop(BulletStep(bullets, Head(lines)), Tail(lines))

FinalPass(bullets) ==
    FilterNonEmpty([i \in 1..Len(bullets) |->
        TrimText(CollapseWs(StripLeadingMarker(bullets[i])))])

\* parseBullets(raw): the list of bullet texts
parseBullets(raw) ==
    IF IsNullish(raw) THEN <<>>
    ELSE LET text == IF IsArray(raw) THEN JoinValues(raw.v, <<NL>>) ELSE AsStr(raw)
             Lines(normalized) ==
                 IF normalized = <<>> THEN <<>>
                 ELSE FinalPass(BulletLoop(<<>>, ExpandInline(
                          FilterNonEmpty(MapTrim(Split(normalized, {NL}))))))
         IN Lines(TrimText(ReplaceChar(ReplaceChar(ReplaceCRLF(text),
                               BULLET, BULLET), TAB, SP)))

\* a list of texts as a JavaScript array of strings
StrArr(xs) == Arr([i \in 1..Len(xs) |-> Str(xs[i])])

(***************************************************************************)
(* _dedupe and normalizeSkills.                                            *)
(***************************************************************************)
UpperToLower ==
    [A |-> "a", B |-> "b", C |-> "c", D |-> "d", E |-> "e", F |-> "f",
     G |-> "g", H |-> "h", I |-> "i", J |-> "j", K |-> "k", L |-> "l",
     M |-> "m", N |-> "n", O |-> "o", P |-> "p", Q |-> "q", R |-> "r",
     S |-> "s", T |-> "t", U |-> "u", V |-> "v", W |-> "w", X |-> "x",
     Y |-> "y", Z |-> "z"]

\* String.prototype.toLowerCase
ToLowerCase(s) ==
    [i \in 1..Len(s) |-> IF s[i] \in DOMAIN UpperToLower
                         THEN UpperToLower[s[i]] ELSE s[i]]

RECURSIVE DedupeLoop(_, _, _)
\* the loop of _dedupe: out is the list built so far, seen the lower-cased keys
DedupeLoop(items, out, seen) ==
    IF items = <<>> THEN out
    ELSE LET s == Trim(Head(items))
             key == ToLowerCase(s)
         IN IF s = <<>> \/ key \in seen
            THEN DedupeLoop(Tail(items), out, seen)
            ELSE DedupeLoop(Tail(items), Append(out, s), seen \cup {key})

\* the items trimmed and the empty ones dropped, repeats kept
DedupeKeepingRepeats(items) ==
    FilterNonEmpty([i \in 1..Len(items) |-> Trim(items[i])])

\* _dedupe(arr): arr is a list of values, the result a list of texts
Dedupe(items) == DedupeLoop(items, <<>>, {})

SkillSeparators == {",", ";", NL}

\* text.split(/[,;\n]/) as a list of string values
SplitSkills(text) ==
    LET parts == Split(text, SkillSeparators)
    IN [i \in 1..Len(parts) |-> Str(parts[i])]

\* Insertion order of the keys of the objects whose keys are enumerated
\* (Object.values, Object.entries, JSON.stringify): a key that comes earlier
\* in this list was inserted earlier.  It agrees with the order in which
\* collectResumeFormState and normalizeResumeShape insert keys.
KeyOrder ==
    <<"resumeName", "personalInfo", "institution", "degree",
      "employer", "role", "name", "email",
      "phone", "location", "linkedin", "website",
      "github", "summary", "startDate", "endDate",
      "description", "achievements", "experience", "education",
      "projects", "category", "skills", "Languages",
      "Tools", "Primary Skills", "Skills 2", "Skills 3">>

\* the characters of each key
KeyText ==
    [k \in {KeyOrder[i] : i \in 1..Len(KeyOrder)} |->
        CASE k = "resumeName" -> <<"r","e","s","u","m","e","N","a","m","e">>
          [] k = "personalInfo" -> <<"p","e","r","s","o","n","a","l","I","n","f","o">>
          [] k = "institution" -> <<"i","n","s","t","i","t","u","t","i","o","n">>
          [] k = "degree" -> <<"d","e","g","r","e","e">>
          [] k = "employer" -> <<"e","m","p","l","o","y","e","r">>
          [] k = "role" -> <<"r","o","l","e">>
          [] k = "name" -> <<"n","a","m","e">>
          [] k = "email" -> <<"e","m","a","i","l">>
          [] k = "phone" -> <<"p","h","o","n","e">>
          [] k = "location" -> <<"l","o","c","a","t","i","o","n">>
          [] k = "linkedin" -> <<"l","i","n","k","e","d","i","n">>
          [] k = "website" -> <<"w","e","b","s","i","t","e">>
          [] k = "github" -> <<"g","i","t","h","u","b">>
          [] k = "summary" -> <<"s","u","m","m","a","r","y">>
          [] k = "startDate" -> <<"s","t","a","r","t","D","a","t","e">>
          [] k = "endDate" -> <<"e","n","d","D","a","t","e">>
          [] k = "description" -> <<"d","e","s","c","r","i","p","t","i","o","n">>
          [] k = "achievements" -> <<"a","c","h","i","e","v","e","m","e","n","t","s">>
          [] k = "experience" -> <<"e","x","p","e","r","i","e","n","c","e">>
          [] k = "education" -> <<"e","d","u","c","a","t","i","o","n">>
          [] k = "projects" -> <<"p","r","o","j","e","c","t","s">>
          [] k = "category" -> <<"c","a","t","e","g","o","r","y">>
          [] k = "skills" -> <<"s","k","i","l","l","s">>
          [] k = "Languages" -> <<"L","a","n","g","u","a","g","e","s">>
          [] k = "Tools" -> <<"T","o","o","l","s">>
          [] k = "Primary Skills" -> <<"P","r","i","m","a","r","y",SP,"S","k","i","l","l","s">>
          [] k = "Skills 2" -> <<"S","k","i","l","l","s",SP,"2">>
          [] k = "Skills 3" -> <<"S","k","i","l","l","s",SP,"3">>]

RECURSIVE ValuesInOrder(_, _)
ValuesInOrder(f, keys) ==
    IF keys = <<>> THEN <<>>
    ELSE (IF Head(keys) \in DOMAIN f THEN <<f[Head(keys)]>> ELSE <<>>)
         \o ValuesInOrder(f, Tail(keys))

RECURSIVE SetToSeq(_)
SetToSeq(S) == IF S = {} THEN <<>>
               ELSE LET x == CHOOSE y \in S : TRUE IN <<x>> \o SetToSeq(S \ {x})

\* Object.values(o); keys outside KeyOrder follow the listed ones
ObjectValues(o) ==
    ValuesInOrder(o.v, KeyOrder \o
        SetToSeq(DOMAIN o.v \ {KeyOrder[i] : i \in 1..Len(KeyOrder)}))

RECURSIVE FlattenCategoryMap(_)
\* the loop over Object.values(v) of the legacy category map
FlattenCategoryMap(vals) ==
    IF vals = <<>> THEN <<>>
    ELSE (IF IsArray(Head(vals)) THEN Head(vals).v
          ELSE SplitSkills(AsStr(Head(vals))))
         \o FlattenCategoryMap(Tail(vals))

RECURSIVE FlattenCategoryList(_)
\* the loop over the legacy [{category, skills}] list
FlattenCategoryList(items) ==
    IF items = <<>> THEN <<>>
    ELSE LET raw == Coalesce(Coalesce(Get(Head(items), "skills"),
                                      Get(Head(items), "items")), Str(<<>>))
         IN SplitSkills(AsStr(raw)) \o FlattenCategoryList(Tail(items))

\* normalizeSkills(v): the list of skill texts
normalizeSkills(v) ==
    IF IsNullish(v) THEN <<>>
    ELSE IF v.t = "object" THEN Dedupe(FlattenCategoryMap(ObjectValues(v)))
    ELSE IF v.t = "array"
         THEN IF \A i \in 1..Len(v.v) : v.v[i].t = "object"
              THEN Dedupe(FlattenCategoryList(v.v))
              ELSE Dedupe(v.v)
    ELSE IF v.t = "string" THEN Dedupe(SplitSkills(v.v))
    ELSE <<>>

(***************************************************************************)
(* parseProjectText.                                                       *)
(***************************************************************************)
RECURSIVE IndexOf(_, _, _)
\* String.prototype.indexOf from position i (1-based), 0 when absent
IndexOf(s, c, i) ==
    IF i > Len(s) THEN 0 ELSE IF s[i] = c THEN i ELSE IndexOf(s, c, i + 1)

\* parseProjectText(raw): [description: text, highlights: list of texts]
parseProjectText(raw) ==
    LET text == IF IsArray(raw) THEN JoinValues(raw.v, <<NL>>) ELSE AsStr(raw)
        Result(chosen, highlights) ==
            [description |-> TrimText(CollapseWs(chosen)),
             highlights |-> highlights]
        \* the text has a bullet character
        Inline(trimmed, preface, highlights) ==
            Result(IF preface # <<>> THEN preface
                   ELSE IF highlights # <<>> THEN Join(highlights, <<SP>>)
                   ELSE trimmed,
                   highlights)
        Plain(trimmed, highlights) ==
            Result(IF highlights # <<>> THEN Join(highlights, <<SP>>) ELSE trimmed,
                   highlights)
        \* idx is trimmed.indexOf(BULLET) + 1
        Parse(trimmed, idx) ==
            IF trimmed = <<>> THEN [description |-> <<>>, highlights |-> <<>>]
            ELSE IF idx > 0
            THEN Inline(trimmed,
                        TrimText(CollapseWs(SubSeq(trimmed, 1, idx - 1))),
                        parseBullets(Str(Drop(trimmed, idx - 1))))
            ELSE Plain(trimmed, parseBullets(Str(trimmed)))
        Trimmed(trimmed) == Parse(trimmed, IndexOf(trimmed, BULLET, 1))
    IN Trimmed(TrimText(text))

(***************************************************************************)
(* normalizeResume and isLegacyResume.                                     *)
(***************************************************************************)
\* the outcome of a call that raises a TypeError
Throw == [t |-> "throw", v |-> <<>>]

DescMaxLen == 1000
DefaultSkill == <<"G","e","n","e","r","a","l",SP,"S","k","i","l","l","s">>
DefaultName == <<"U","n","t","i","t","l","e","d",SP,"R","e","s","u","m","e">>

\* Array.isArray(v) ? v : []
ArrayOrEmpty(v) == IF IsArray(v) THEN v.v ELSE <<>>

\* xs.map(a => _trim(a)).filter(Boolean) as a JavaScript array
TrimmedNonEmpty(xs) == StrArr(FilterNonEmpty([i \in 1..Len(xs) |-> Trim(xs[i])]))

\* s.slice(0, n)
Take(s, n) == IF Len(s) <= n THEN s ELSE SubSeq(s, 1, n)

normalizeEducationEntry(e) ==
    LET achievements ==
            IF IsArray(Get(e, "achievements")) THEN Get(e, "achievements").v
            ELSE IF IsArray(Get(e, "coursework")) THEN Get(e, "coursework").v
            ELSE StrArr(parseBullets(Get(e, "coursework"))).v
    IN Obj([institution |-> Str(Trim(Get(e, "institution"))),
            degree |-> Str(Trim(Get(e, "degree"))),
            field |-> NullIfEmpty(Get(e, "field")),
            startDate |-> Str(Trim(Get(e, "startDate"))),
            endDate |-> Str(Trim(Get(e, "endDate"))),
            gpa |-> NullIfEmpty(Get(e, "gpa")),
            achievements |-> TrimmedNonEmpty(achievements)])

normalizeExperienceEntry(x) ==
    Obj([company |-> Str(Trim(Coalesce(Get(x, "company"), Get(x, "employer")))),
         position |-> Str(Trim(Coalesce(Get(x, "position"), Get(x, "role")))),
         location |-> NullIfEmpty(Get(x, "location")),
         startDate |-> Str(Trim(Get(x, "startDate"))),
         endDate |-> Str(Trim(Get(x, "endDate"))),
         description |-> StrArr(parseBullets(Get(x, "description")))])

\* a project entry that keeps the link under the key github
normalizeProjectEntryUnderGithub(p) ==
    LET Entry(parsed, hl) ==
            Obj([name |-> Str(Trim(Get(p, "name"))),
                 description |-> Str(Take(parsed.description, DescMaxLen)),
                 technologies |-> IF IsArray(Get(p, "technologies"))
                                  THEN TrimmedNonEmpty(Get(p, "technologies").v)
                                  ELSE Arr(<<>>),
                 github |-> NullIfEmpty(Coalesce(Get(p, "link"), Get(p, "github"))),
                 highlights |-> IF IsArray(hl) /\ hl.v # <<>>
                                THEN TrimmedNonEmpty(hl.v)
                                ELSE StrArr(parsed.highlights),
                 startDate |-> NullIfEmpty(Get(p, "startDate")),
                 endDate |-> NullIfEmpty(Get(p, "endDate"))])
    IN Entry(parseProjectText(
                 Coalesce(Coalesce(Get(p, "description"), Get(p, "highlights")),
                          Str(<<>>))),
             Get(p, "highlights"))

normalizeProjectEntry(p) ==
    LET Entry(parsed, hl) ==
            Obj([name |-> Str(Trim(Get(p, "name"))),
                 description |-> Str(Take(parsed.description, DescMaxLen)),
                 technologies |-> IF IsArray(Get(p, "technologies"))
                                  THEN TrimmedNonEmpty(Get(p, "technologies").v)
                                  ELSE Arr(<<>>),
                 link |-> NullIfEmpty(Coalesce(Get(p, "link"), Get(p, "github"))),
                 highlights |-> IF IsArray(hl) /\ hl.v # <<>>
                                THEN TrimmedNonEmpty(hl.v)
                                ELSE StrArr(parsed.highlights),
                 startDate |-> NullIfEmpty(Get(p, "startDate")),
                 endDate |-> NullIfEmpty(Get(p, "endDate"))])
    IN Entry(parseProjectText(
                 Coalesce(Coalesce(Get(p, "description"), Get(p, "highlights")),
                          Str(<<>>))),
             Get(p, "highlights"))

KeepEducation(e) == Truthy(e.v.institution) /\ Truthy(e.v.degree)
\* the filter without its test of the description list
KeepExperienceAnyDescription(x) == Truthy(x.v.company) /\ Truthy(x.v.position)

KeepExperience(x) ==
    /\ Truthy(x.v.company) /\ Truthy(x.v.position)
    /\ IsArray(x.v.description) /\ Len(x.v.description.v) > 0
KeepProject(p) == Truthy(p.v.name) /\ Truthy(p.v.description)

\* reading a property of null or undefined raises a TypeError
AnyNullish(xs) == \E i \in 1..Len(xs) : IsNullish(xs[i])

\* the skills returned as they were resolved, with no fallback
SkillsAsResolved(skills) == StrArr(skills)

\* skills.length ? skills : ['General Skills']
SkillsOrDefault(skills) ==
    IF skills # <<>> THEN StrArr(skills) ELSE StrArr(<<DefaultSkill>>)

\* normalizeResume(raw); now is the value of new Date().toISOString() and
\* freshId the value newResumeId() would return
normalizeResume(raw, now, freshId) ==
    IF raw.t \notin {"object", "array"} THEN Null
    ELSE
    LET PersonalInfo(piRaw) ==
            [name |-> Str(Trim(Get(piRaw, "name"))),
             email |-> Str(Trim(Get(piRaw, "email"))),
             phone |-> NullIfEmpty(Get(piRaw, "phone")),
             location |-> NullIfEmpty(Get(piRaw, "location")),
             linkedin |-> NullIfEmpty(Get(piRaw, "linkedin")),
             github |-> NullIfEmpty(Get(piRaw, "github")),
             website |-> NullIfEmpty(
                 Coalesce(Coalesce(Coalesce(Get(piRaw, "website"),
                                            Get(piRaw, "portfolio")),
                                   Get(raw, "website")), Get(raw, "portfolio"))),
             summary |-> NullIfEmpty(Get(piRaw, "summary"))]
        Normalized(personalInfo, education, experience, projects, skills,
                   idText, nameText) ==
            IF AnyNullish(education) \/ AnyNullish(experience) \/ AnyNullish(projects)
            THEN Throw
            ELSE Obj([
              id |-> IF idText # <<>> THEN Str(idText) ELSE freshId,
              name |-> IF nameText # <<>> THEN Str(nameText)
                       ELSE IF Truthy(personalInfo.name) THEN personalInfo.name
                       ELSE Str(DefaultName),
              personalInfo |-> Obj(personalInfo),
              education |-> Arr(SelectSeq(
                  [i \in 1..Len(education) |-> normalizeEducationEntry(education[i])],
                  KeepEducation)),
              experience |-> Arr(SelectSeq(
                  [i \in 1..Len(experience) |->
                      normalizeExperienceEntry(experience[i])],
                  KeepExperience)),
              skills |-> SkillsOrDefault(skills),
              projects |-> Arr(SelectSeq(
                  [i \in 1..Len(projects) |-> normalizeProjectEntry(projects[i])],
                  KeepProject)),
              certifications |-> IF IsArray(Get(raw, "certifications"))
                                 THEN Get(raw, "certifications") ELSE Arr(<<>>),
              createdAt |-> Coalesce(Get(raw, "createdAt"), now),
              updatedAt |-> Coalesce(Get(raw, "updatedAt"), now)])
    IN Normalized(
           PersonalInfo(OrElse(OrElse(Get(raw, "personalInfo"),
                                      Get(raw, "personal_info")), Obj(<<>>))),
           ArrayOrEmpty(Get(raw, "education")),
           ArrayOrEmpty(Get(raw, "experience")),
           ArrayOrEmpty(Get(raw, "projects")),
           normalizeSkills(Get(raw, "skills")),
           Trim(Get(raw, "id")),
           Trim(Coalesce(Get(raw, "name"), Get(raw, "resumeName"))))

LegacyExperienceEntry(x) == HasKey(x, "employer") \/ HasKey(x, "role")
LegacyProjectEntry(p) == HasKey(p, "github") \/ IsArray(Get(p, "description"))
LegacyEducationEntry(e) == HasKey(e, "coursework")

\* the test of each .some() call of isLegacyResume, by section
LegacyEntry(section, x) ==
    CASE section = "experience" -> LegacyExperienceEntry(x)
      [] section = "projects" -> LegacyProjectEntry(x)
      [] OTHER -> LegacyEducationEntry(x)

RECURSIVE SomeEntry(_, _)
\* xs.some(test) where test applies the `in` operator to the entry: "true",
\* "false", or "throw" when a primitive entry is reached first (TypeError)
SomeEntry(xs, section) ==
    IF xs = <<>> THEN "false"
    ELSE IF Head(xs).t \notin {"object", "array"} THEN "throw"
    ELSE IF LegacyEntry(section, Head(xs)) THEN "true"
    ELSE SomeEntry(Tail(xs), section)

\* isLegacyResume(r): "true", "false", or "throw"
isLegacyResume(r) ==
    IF r.t \notin {"object", "array"} THEN "false"
    ELSE
    LET pi == Get(r, "personalInfo")
        ex == Get(r, "experience")
        pr == Get(r, "projects")
        sk == Get(r, "skills")
        ed == Get(r, "education")
        exR == IF IsArray(ex) THEN SomeEntry(ex.v, "experience") ELSE "false"
        prR == IF IsArray(pr) THEN SomeEntry(pr.v, "projects") ELSE "false"
        edR == IF IsArray(ed) THEN SomeEntry(ed.v, "education") ELSE "false"
    IN IF pi.t \in {"object", "array"} /\ HasKey(pi, "portfolio") THEN "true"
       ELSE IF exR # "false" THEN exR
       ELSE IF prR # "false" THEN prR
       ELSE IF Truthy(sk) /\ ~IsArray(sk) THEN "true"
       ELSE edR

(***************************************************************************)
(* Timestamps and generated ids: the n-th value of the clock, the n-th id  *)
(* produced by crypto.randomUUID().                                        *)
(***************************************************************************)
TimeText(n) == Str(<<"T", ToString(n)>>)
FreshId(n) == Str(<<"n", ToString(n)>>)

(***************************************************************************)
(* storage.js: normalizeResumeShape and the resume map.                    *)
(***************************************************************************)
\* safeString(x): the trimmed text of a string, '' for anything else
safeString(x) == IF x.t = "string" THEN TrimText(x.v) ELSE <<>>

\* safeString(a) || safeString(b)
SafeEither(a, b) ==
    LET Or(s) == IF s # <<>> THEN s ELSE safeString(b) IN Or(safeString(a))

\* xs.map(safeString).filter(Boolean)
SafeStrings(xs) == FilterNonEmpty([i \in 1..Len(xs) |-> safeString(xs[i])])

\* text.split(sep).map(s => s.trim()).filter(Boolean) for a one-character sep
SplitTrimmed(text, seps) == FilterNonEmpty(MapTrim(Split(text, seps)))

RECURSIVE SplitOnDotSpace(_, _)
\* text.split('. ')
SplitOnDotSpace(s, cur) ==
    IF s = <<>> THEN <<cur>>
    ELSE IF Len(s) >= 2 /\ s[1] = "." /\ s[2] = SP
         THEN <<cur>> \o SplitOnDotSpace(Tail(Tail(s)), <<>>)
    ELSE SplitOnDotSpace(Tail(s), Append(cur, Head(s)))

RECURSIVE TextKey(_)
\* a text used as an object key
TextKey(s) == IF s = <<>> THEN "" ELSE Head(s) \o TextKey(Tail(s))

ChunkSize == 5

\* the category name of the chunk that starts at index i (0-based)
ChunkName(i) == IF i = 0 THEN "Primary Skills"
                ELSE "Skills " \o ToString((i \div ChunkSize) + 1)

RECURSIVE ChunkSkills(_, _)
\* the flat-array branch: group into categories of ChunkSize
ChunkSkills(skills, i) ==
    IF i >= Len(skills) THEN <<>>
    ELSE LET hi == IF i + ChunkSize < Len(skills) THEN i + ChunkSize ELSE Len(skills)
         IN [k \in {ChunkName(i)} |-> Arr(SubSeq(skills, i + 1, hi))]
            @@ ChunkSkills(skills, i + ChunkSize)

RECURSIVE CategoryMap(_)
\* the array-of-category-objects branch; a later item of the same category
\* overwrites an earlier one
CategoryMap(items) ==
    IF items = <<>> THEN <<>>
    ELSE LET Item(cat, its, rest) ==
                 IF cat = <<>> THEN rest
                 ELSE [k \in {TextKey(cat)} |->
                         IF IsArray(its) THEN StrArr(SafeStrings(its.v))
                         ELSE StrArr(SplitTrimmed(safeString(its), {","}))] @@ rest
         IN Item(safeString(Get(items[Len(items)], "category")),
                 Get(items[Len(items)], "skills"),
                 CategoryMap(SubSeq(items, 1, Len(items) - 1)))

\* the skills value normalizeResumeShape stores
ShapeSkills(raw) ==
    LET Shape(skills) ==
            IF IsArray(skills) /\ Len(skills.v) > 0 /\ skills.v[1].t = "string"
            THEN Obj(ChunkSkills(skills.v, 0))
            ELSE IF IsArray(skills) THEN Obj(CategoryMap(skills.v))
            ELSE IF skills.t # "object" THEN Obj(<<>>)
            ELSE skills
    IN Shape(IF Truthy(raw) THEN raw ELSE Obj(<<>>))

ShapeExperienceEntry(e) ==
    Obj([employer |-> Str(SafeEither(Get(e, "employer"), Get(e, "company"))),
         role |-> Str(SafeEither(Get(e, "role"), Get(e, "position"))),
         startDate |-> Str(safeString(Get(e, "startDate"))),
         endDate |-> Str(safeString(Get(e, "endDate"))),
         description |->
             IF IsArray(Get(e, "description"))
             THEN StrArr(SafeStrings(Get(e, "description").v))
             ELSE StrArr(SplitTrimmed(safeString(Get(e, "description")), {NL}))])

ShapeEducationEntry(e) ==
    Obj([institution |-> Str(safeString(Get(e, "institution"))),
         degree |-> Str(safeString(Get(e, "degree"))),
         startDate |-> Str(safeString(Get(e, "startDate"))),
         endDate |-> Str(safeString(Get(e, "endDate"))),
         coursework |->
             IF IsArray(Get(e, "coursework"))
             THEN StrArr(SafeStrings(Get(e, "coursework").v))
             ELSE IF IsArray(Get(e, "achievements"))
             THEN StrArr(SafeStrings(Get(e, "achievements").v))
             ELSE StrArr(SplitTrimmed(
                     safeString(OrElse(Get(e, "coursework"), Get(e, "achievements"))),
                     {","}))])

ShapeProjectEntry(p) ==
    LET Description(d) ==
            IF IsArray(d) THEN SafeStrings(d.v)
            ELSE IF d.t = "string" /\ d.v # <<>>
            THEN FilterNonEmpty(MapTrim(SplitOnDotSpace(d.v, <<>>)))
            ELSE IF IsArray(Get(p, "highlights"))
            THEN SafeStrings(Get(p, "highlights").v)
            ELSE <<>>
    IN Obj([name |-> Str(safeString(Get(p, "name"))),
            github |-> Str(SafeEither(Get(p, "github"), Get(p, "link"))),
            startDate |-> Str(safeString(Get(p, "startDate"))),
            endDate |-> Str(safeString(Get(p, "endDate"))),
            description |-> StrArr(Description(Get(p, "description")))])

\* a text, or the fallback value when the text is empty
TextOr(text, fallback) == IF text # <<>> THEN Str(text) ELSE fallback

\* normalizeResumeShape(resume); now is nowISO(), freshId is newId()
normalizeResumeShape(resume, now, freshId) ==
    LET Shape(r, personal, experience, education, projects) == Obj([
        id |-> TextOr(safeString(Get(r, "id")), freshId),
        name |-> TextOr(safeString(Get(r, "name")),
                 TextOr(safeString(Get(r, "resumeName")),
                 TextOr(safeString(Get(personal, "name")), Str(DefaultName)))),
        createdAt |-> TextOr(safeString(Get(r, "createdAt")), now),
        updatedAt |-> TextOr(safeString(Get(r, "updatedAt")), now),
        personalInfo |-> Obj([
            name |-> Str(safeString(Get(personal, "name"))),
            email |-> Str(safeString(Get(personal, "email"))),
            phone |-> Str(safeString(Get(personal, "phone"))),
            location |-> Str(safeString(Get(personal, "location"))),
            linkedin |-> Str(safeString(Get(personal, "linkedin"))),
            portfolio |-> Str(SafeEither(Get(personal, "portfolio"),
                                         Get(personal, "website"))),
            github |-> Str(safeString(Get(personal, "github"))),
            summary |-> Str(safeString(Get(personal, "summary")))]),
        experience |-> Arr([i \in 1..Len(experience) |->
                               ShapeExperienceEntry(experience[i])]),
        education |-> Arr([i \in 1..Len(education) |->
                              ShapeEducationEntry(education[i])]),
        projects |-> Arr([i \in 1..Len(projects) |->
                             ShapeProjectEntry(projects[i])]),
        skills |-> ShapeSkills(Get(r, "skills")),
        certifications |-> IF IsArray(Get(r, "certifications"))
                           THEN Get(r, "certifications") ELSE Arr(<<>>)])
        Resume(r) ==
            Shape(r,
                  IF Get(r, "personalInfo").t \in {"object", "array"}
                  THEN Get(r, "personalInfo") ELSE Obj(<<>>),
                  ArrayOrEmpty(Get(r, "experience")),
                  ArrayOrEmpty(Get(r, "education")),
                  ArrayOrEmpty(Get(r, "projects")))
    IN Resume(IF resume.t \in {"object", "array"} THEN resume ELSE Obj(<<>>))

(***************************************************************************)
(* The stored resume map: a JavaScript object keyed by id, kept as the     *)
(* list of its entries [k, r] in insertion order.                          *)
(***************************************************************************)
MapKeys(m) == [i \in 1..Len(m) |-> m[i].k]
MapHas(m, k) == \E i \in 1..Len(m) : m[i].k = k
MapGet(m, k) == m[CHOOSE i \in 1..Len(m) : m[i].k = k].r
\* m[k] = r
MapPut(m, k, r) ==
    IF MapHas(m, k)
    THEN [i \in 1..Len(m) |-> IF m[i].k = k THEN [k |-> k, r |-> r] ELSE m[i]]
    ELSE Append(m, [k |-> k, r |-> r])
RECURSIVE MapDelete(_, _)
\* delete m[k]
MapDelete(m, k) ==
    IF m = <<>> THEN <<>>
    ELSE IF Head(m).k = k THEN MapDelete(Tail(m), k)
    ELSE <<Head(m)>> \o MapDelete(Tail(m), k)

\* a save that files the record under the id as the caller passed it
saveResumeUnderGivenId(m, resume, now, freshId) ==
    LET Filed(shaped) ==
            MapPut(m, StringOf(OrElse(Get(resume, "id"), freshId)),
                   Obj([shaped.v EXCEPT !.updatedAt = now]))
    IN Filed(normalizeResumeShape(resume, now, freshId))

\* storage.saveResume(resume) on the map m: the map written back
saveResume(m, resume, now, freshId) ==
    LET Put(normalized) == MapPut(m, normalized.v.id.v, normalized)
        \* stamped is the shaped resume with updatedAt set
        Created(stamped) ==
            Put(Obj(IF ~Truthy(stamped.createdAt)
                    THEN [stamped EXCEPT !.createdAt = stamped.updatedAt]
                    ELSE stamped))
        Stamp(shaped) == Created([shaped.v EXCEPT !.updatedAt = now])
    IN Stamp(normalizeResumeShape(resume, now, freshId))

\* storage.deleteResume(id): the map written back
deleteResume(m, id) == MapDelete(m, id)

(***************************************************************************)
(* storage.js: import.                                                     *)
(***************************************************************************)
ImportedSuffix == <<SP, "(", "i", "m", "p", "o", "r", "t", "e", "d", ")">>

\* a coercion that knows the two list shapes only
coerceListsOnly(parsed) ==
    IF ~Truthy(parsed) THEN <<>>
    ELSE IF IsArray(parsed) THEN parsed.v
    ELSE IF IsArray(Get(parsed, "resumes")) THEN Get(parsed, "resumes").v
    ELSE <<>>

\* coerceImportedResumes(parsed): the list of raw resumes
coerceImportedResumes(parsed) ==
    IF ~Truthy(parsed) THEN <<>>
    ELSE IF IsArray(parsed) THEN parsed.v
    ELSE IF parsed.t = "object"
    THEN IF IsArray(Get(parsed, "resumes")) THEN Get(parsed, "resumes").v
         ELSE IF Get(parsed, "resumes").t = "object"
              THEN ObjectValues(Get(parsed, "resumes"))
         ELSE IF \/ Truthy(Get(parsed, "personalInfo"))
                 \/ Truthy(Get(parsed, "experience"))
                 \/ Truthy(Get(parsed, "education"))
                 \/ Truthy(Get(parsed, "projects"))
              THEN <<parsed>>
         ELSE <<>>
    ELSE <<>>

RECURSIVE ShapeAll(_, _, _)
\* importedRaw.map(normalizeResumeShape); c is the number of ids generated so
\* far.  The result is [list, c].
ShapeAll(raws, now, c) ==
    IF raws = <<>> THEN [list |-> <<>>, c |-> c]
    ELSE LET Shaped(c1, rest) ==
                 [list |-> <<normalizeResumeShape(Head(raws), now, FreshId(c1))>>
                           \o rest.list,
                  c |-> rest.c]
             Counted(c1) == Shaped(c1, ShapeAll(Tail(raws), now, c1))
         IN Counted(IF safeString(Get(Head(raws), "id")) = <<>> THEN c + 1 ELSE c)

\* a conflicting record stored over the existing entry whatever overwrite is
ImportRecordClobbering(r, acc, overwrite, now) ==
    LET hasId == Truthy(r.v.id)
        incomingId == IF hasId THEN r.v.id ELSE FreshId(acc.c + 1)
        c1 == IF hasId THEN acc.c ELSE acc.c + 1
        entry == Obj([r.v EXCEPT !.id = incomingId, !.updatedAt = now])
    IN IF incomingId.v \notin acc.existingIds
       THEN [acc EXCEPT !.next = MapPut(@, incomingId.v, entry),
                        !.existingIds = @ \cup {incomingId.v},
                        !.added = @ + 1, !.c = c1]
       ELSE IF overwrite
       THEN [acc EXCEPT !.next = MapPut(@, incomingId.v, entry),
                        !.overwritten = @ + 1, !.c = c1]
       ELSE [acc EXCEPT !.next = MapPut(@, incomingId.v, entry),
                        !.deduped = @ + 1, !.c = c1]

\* one iteration of the loop over the imported records; acc is
\* [next, existingIds, added, overwritten, deduped, c]
ImportRecord(r, acc, overwrite, now) ==
    LET hasId == Truthy(r.v.id)
        incomingId == IF hasId THEN r.v.id ELSE FreshId(acc.c + 1)
        c1 == IF hasId THEN acc.c ELSE acc.c + 1
        entry == Obj([r.v EXCEPT !.id = incomingId, !.updatedAt = now])
    IN IF incomingId.v \notin acc.existingIds
       THEN [acc EXCEPT !.next = MapPut(@, incomingId.v, entry),
                        !.existingIds = @ \cup {incomingId.v},
                        !.added = @ + 1, !.c = c1]
       ELSE IF overwrite
       THEN [acc EXCEPT !.next = MapPut(@, incomingId.v, entry),
                        !.overwritten = @ + 1, !.c = c1]
       ELSE LET newResumeId == FreshId(c1 + 1)
            IN [acc EXCEPT
                   !.next = MapPut(@, newResumeId.v,
                       Obj([r.v EXCEPT !.id = newResumeId,
                                       !.name = Str(StringOf(r.v.name)
                                                    \o ImportedSuffix),
                                       !.updatedAt = now])),
                   !.existingIds = @ \cup {newResumeId.v},
                   !.deduped = @ + 1, !.c = c1 + 1]

RECURSIVE ImportLoop(_, _, _, _)
\* for (const r of imported) { ... }
ImportLoop(imported, acc, overwrite, now) ==
    IF imported = <<>> THEN acc
    ELSE ImportLoop(Tail(imported),
                    ImportRecord(Head(imported), acc, overwrite, now),
                    overwrite, now)

InvalidJsonMessage == "Invalid JSON file."
NoResumesMessage == "No resumes found in this JSON file."

\* an import that takes a file without resumes as an empty import
importResumesSilent(parsed, overwrite, existing, current, now, c) ==
    [error |-> parsed = Throw,
     message |-> IF parsed = Throw THEN InvalidJsonMessage ELSE "",
     next |-> existing, profile |-> current,
     added |-> 0, overwritten |-> 0, deduped |-> 0, total |-> 0, c |-> c]

\* importResumesFromJSONText after JSON.parse: parsed is the parsed value, or
\* Throw when the text is not JSON.  The result is
\* [error, message, next, profile, added, overwritten, deduped, total, c];
\* message is the message of the Error thrown, next and profile are what
\* storage holds afterwards.
importResumes(parsed, overwrite, existing, current, now, c) ==
    LET Rejected(message) ==
            [error |-> TRUE, message |-> message,
             next |-> existing, profile |-> current,
             added |-> 0, overwritten |-> 0, deduped |-> 0,
             total |-> 0, c |-> c]
        Report(shaped, done) ==
            [error |-> FALSE, message |-> "",
             next |-> done.next,
             profile |-> IF ~Truthy(current) /\ done.next # <<>>
                         THEN Str(done.next[1].k) ELSE current,
             added |-> done.added, overwritten |-> done.overwritten,
             deduped |-> done.deduped, total |-> Len(shaped.list), c |-> done.c]
        Merge(shaped) ==
            Report(shaped,
                   ImportLoop(shaped.list,
                      [next |-> existing,
                       existingIds |-> {existing[i].k : i \in 1..Len(existing)},
                       added |-> 0, overwritten |-> 0, deduped |-> 0,
                       c |-> shaped.c],
                      overwrite, now))
        Coerced(importedRaw) ==
            IF importedRaw = <<>> THEN Rejected(NoResumesMessage)
            ELSE Merge(ShapeAll(importedRaw, now, c))
    IN IF parsed = Throw THEN Rejected(InvalidJsonMessage)
       ELSE Coerced(coerceImportedResumes(parsed))

(***************************************************************************)
(* The editor form: the values of the DOM fields of #resume-form.          *)
(***************************************************************************)
\* the form after clearDynamicContainers() and resumeForm.reset()
BlankForm ==
    [resumeName |-> <<>>, name |-> <<>>, email |-> <<>>, phone |-> <<>>,
     location |-> <<>>, linkedin |-> <<>>, portfolio |-> <<>>, github |-> <<>>,
     summary |-> <<>>, experience |-> <<>>, education |-> <<>>,
     projects |-> <<>>, skills |-> <<>>]

\* the text a DOM field shows for `a || ''`
FieldText(a) == StringOf(OrElse(a, Str(<<>>)))
\* the text a DOM field shows for `a || b || ''`
FieldEither(a, b) == StringOf(OrElse(OrElse(a, b), Str(<<>>)))

\* descLines.join('\\n') inside the template literal: the separator is the
\* two characters backslash and n
EscapedNewline == <<"\\", "n">>

\* addExperienceEntry(data): the fields of the entry appended
addExperienceEntry(data) ==
    LET d == Get(data, "description")
        descLines == IF IsArray(d) THEN d.v ELSE StrArr(parseBullets(d)).v
    IN [employer |-> FieldEither(Get(data, "employer"), Get(data, "company")),
        role |-> FieldEither(Get(data, "role"), Get(data, "position")),
        startDate |-> FieldText(Get(data, "startDate")),
        endDate |-> FieldText(Get(data, "endDate")),
        desc |-> JoinValues(descLines, EscapedNewline)]

\* addEducationEntry(data)
addEducationEntry(data) ==
    LET achievements ==
            IF IsArray(Get(data, "achievements")) THEN Get(data, "achievements").v
            ELSE IF IsArray(Get(data, "coursework")) THEN Get(data, "coursework").v
            ELSE <<>>
    IN [institution |-> FieldText(Get(data, "institution")),
        degree |-> FieldText(Get(data, "degree")),
        startDate |-> FieldText(Get(data, "startDate")),
        endDate |-> FieldText(Get(data, "endDate")),
        coursework |-> JoinValues(achievements, EscapedNewline)]

\* addProjectEntry(data)
addProjectEntry(data) ==
    LET d == Get(data, "description")
        descLines == IF IsArray(d) THEN d.v ELSE StrArr(parseBullets(d)).v
    IN [name |-> FieldText(Get(data, "name")),
        github |-> FieldEither(Get(data, "github"), Get(data, "link")),
        startDate |-> FieldText(Get(data, "startDate")),
        endDate |-> FieldText(Get(data, "endDate")),
        desc |-> JoinValues(descLines, EscapedNewline)]

\* addSkillEntry(data)
addSkillEntry(data) ==
    [category |-> FieldText(Get(data, "category")),
     skills |-> FieldText(Get(data, "skills"))]

\* the experience entries populateForm and applyResumeFormState add
FillExperience(list) ==
    [i \in 1..Len(list) |-> addExperienceEntry(Obj([
        employer |-> OrElse(OrElse(Get(list[i], "employer"), Get(list[i], "company")),
                            Str(<<>>)),
        role |-> OrElse(OrElse(Get(list[i], "role"), Get(list[i], "position")),
                        Str(<<>>)),
        startDate |-> OrElse(Get(list[i], "startDate"), Str(<<>>)),
        endDate |-> OrElse(Get(list[i], "endDate"), Str(<<>>)),
        description |-> IF IsArray(Get(list[i], "description"))
                        THEN Get(list[i], "description") ELSE Arr(<<>>)]))]

FillEducation(list) ==
    [i \in 1..Len(list) |-> addEducationEntry(Obj([
        institution |-> OrElse(Get(list[i], "institution"), Str(<<>>)),
        degree |-> OrElse(Get(list[i], "degree"), Str(<<>>)),
        startDate |-> OrElse(Get(list[i], "startDate"), Str(<<>>)),
        endDate |-> OrElse(Get(list[i], "endDate"), Str(<<>>)),
        coursework |-> IF IsArray(Get(list[i], "coursework"))
                       THEN Get(list[i], "coursework")
                       ELSE IF IsArray(Get(list[i], "achievements"))
                       THEN Get(list[i], "achievements")
                       ELSE Arr(<<>>)]))]

\* proj.description.split('. ').filter(s => s.trim())
SplitSentences(text) ==
    LET parts == SplitOnDotSpace(text, <<>>)
        keep(q) == TrimText(q) # <<>>
    IN SelectSeq(parts, keep)

FillProjects(list) ==
    [i \in 1..Len(list) |->
        LET d == Get(list[i], "description")
            description ==
                IF d.t = "string" THEN StrArr(SplitSentences(d.v))
                ELSE IF IsArray(d) THEN d
                ELSE IF IsArray(Get(list[i], "highlights"))
                THEN Get(list[i], "highlights")
                ELSE Arr(<<>>)
        IN addProjectEntry(Obj([
            name |-> OrElse(Get(list[i], "name"), Str(<<>>)),
            github |-> OrElse(OrElse(Get(list[i], "github"), Get(list[i], "link")),
                              Str(<<>>)),
            startDate |-> OrElse(Get(list[i], "startDate"), Str(<<>>)),
            endDate |-> OrElse(Get(list[i], "endDate"), Str(<<>>)),
            description |-> description]))]

RECURSIVE EntriesInOrder(_, _)
\* Object.entries(o) as [k, v] pairs
EntriesInOrder(f, keys) ==
    IF keys = <<>> THEN <<>>
    ELSE (IF Head(keys) \in DOMAIN f
          THEN << [k |-> Head(keys), v |-> f[Head(keys)]] >> ELSE <<>>)
         \o EntriesInOrder(f, Tail(keys))

CommaSpace == <<",", SP>>

\* the skill entries added for a category map
FillSkillsFromMap(o) ==
    LET es == EntriesInOrder(o.v, KeyOrder)
    IN [i \in 1..Len(es) |-> addSkillEntry(Obj([
           category |-> Str(KeyText[es[i].k]),
           skills |-> Str(IF IsArray(es[i].v) THEN JoinValues(es[i].v.v, CommaSpace)
                          ELSE StringOf(es[i].v))]))]

RECURSIVE FillSkillsFromArray(_, _)
\* the skill entries added for an array, in chunks of ChunkSize
FillSkillsFromArray(skills, i) ==
    IF i >= Len(skills) THEN <<>>
    ELSE LET hi == IF i + ChunkSize < Len(skills) THEN i + ChunkSize ELSE Len(skills)
         IN << addSkillEntry(Obj([
                   category |-> Str(KeyText[ChunkName(i)]),
                   skills |-> Str(JoinValues(SubSeq(skills, i + 1, hi), CommaSpace))])) >>
            \o FillSkillsFromArray(skills, i + ChunkSize)

\* the skills block shared by populateForm and applyResumeFormState; an array
\* always takes the chunking branch
FillSkills(sk) ==
    IF ~Truthy(sk) THEN <<>>
    ELSE IF sk.t = "object" THEN FillSkillsFromMap(sk)
    ELSE IF IsArray(sk) THEN FillSkillsFromArray(sk.v, 0)
    ELSE <<>>

\* the list held by a section: nothing unless it is an array
SectionList(v) == IF IsArray(v) THEN v.v ELSE <<>>

\* populateForm(resume): the form afterwards
populateForm(resume) ==
    LET pi == OrElse(Get(resume, "personalInfo"), Obj(<<>>))
    IN [resumeName |-> FieldText(Get(resume, "name")),
        name |-> FieldText(Get(pi, "name")),
        email |-> FieldText(Get(pi, "email")),
        phone |-> FieldText(Get(pi, "phone")),
        location |-> FieldText(Get(pi, "location")),
        linkedin |-> FieldText(Get(pi, "linkedin")),
        portfolio |-> FieldEither(Get(pi, "portfolio"), Get(pi, "website")),
        github |-> FieldText(Get(pi, "github")),
        summary |-> FieldText(Get(pi, "summary")),
        experience |-> FillExperience(SectionList(Get(resume, "experience"))),
        education |-> FillEducation(SectionList(Get(resume, "education"))),
        projects |-> FillProjects(SectionList(Get(resume, "projects"))),
        skills |-> FillSkills(Get(resume, "skills"))]

\* applyResumeFormState(state): the form afterwards
applyResumeFormState(state) ==
    LET pi == OrElse(Get(state, "personalInfo"), Obj(<<>>))
    IN [resumeName |-> FieldText(Get(state, "resumeName")),
        name |-> FieldText(Get(pi, "name")),
        email |-> FieldText(Get(pi, "email")),
        phone |-> FieldText(Get(pi, "phone")),
        location |-> FieldText(Get(pi, "location")),
        linkedin |-> FieldText(Get(pi, "linkedin")),
        portfolio |-> FieldEither(Get(pi, "portfolio"), Get(pi, "website")),
        github |-> FieldText(Get(pi, "github")),
        summary |-> FieldText(Get(pi, "summary")),
        experience |-> FillExperience(SectionList(OrElse(Get(state, "experience"), Arr(<<>>)))),
        education |-> FillEducation(SectionList(OrElse(Get(state, "education"), Arr(<<>>)))),
        projects |-> FillProjects(SectionList(OrElse(Get(state, "projects"), Arr(<<>>)))),
        skills |-> FillSkills(Get(state, "skills"))]

\* collectResumeFormState(): the draft snapshot of the form.  The form has
\* no field named website, so getEither('website', 'portfolio') reads portfolio.
collectResumeFormState(f) ==
    Obj([resumeName |-> Str(TrimText(f.resumeName)),
         personalInfo |-> Obj([
             name |-> Str(TrimText(f.name)),
             email |-> Str(TrimText(f.email)),
             phone |-> Str(TrimText(f.phone)),
             location |-> Str(TrimText(f.location)),
             linkedin |-> Str(TrimText(f.linkedin)),
             website |-> Str(TrimText(f.portfolio)),
             github |-> Str(TrimText(f.github)),
             summary |-> Str(TrimText(f.summary))]),
         experience |-> Arr([i \in 1..Len(f.experience) |-> Obj([
             employer |-> Str(TrimText(f.experience[i].employer)),
             role |-> Str(TrimText(f.experience[i].role)),
             startDate |-> Str(TrimText(f.experience[i].startDate)),
             endDate |-> Str(TrimText(f.experience[i].endDate)),
             description |-> StrArr(parseBullets(Str(TrimText(f.experience[i].desc))))])]),
         education |-> Arr([i \in 1..Len(f.education) |-> Obj([
             institution |-> Str(TrimText(f.education[i].institution)),
             degree |-> Str(TrimText(f.education[i].degree)),
             startDate |-> Str(TrimText(f.education[i].startDate)),
             endDate |-> Str(TrimText(f.education[i].endDate)),
             achievements |->
                 IF TrimText(f.education[i].coursework) # <<>>
                 THEN StrArr(SplitTrimmed(TrimText(f.education[i].coursework),
                                          SkillSeparators))
                 ELSE Arr(<<>>)])]),
         projects |-> Arr([i \in 1..Len(f.projects) |-> Obj([
             name |-> Str(TrimText(f.projects[i].name)),
             github |-> Str(TrimText(f.projects[i].github)),
             startDate |-> Str(TrimText(f.projects[i].startDate)),
             endDate |-> Str(TrimText(f.projects[i].endDate)),
             description |-> StrArr(parseBullets(Str(TrimText(f.projects[i].desc))))])]),
         skills |-> Arr([i \in 1..Len(f.skills) |-> Obj([
             category |-> Str(TrimText(f.skills[i].category)),
             skills |-> Str(TrimText(f.skills[i].skills))])])])

(***************************************************************************)
(* JSON.stringify and hasDraftContent.                                     *)
(***************************************************************************)
RECURSIVE JsonEscape(_)
\* the characters of a string between its quotes
JsonEscape(s) ==
    IF s = <<>> THEN <<>>
    ELSE (CASE Head(s) = "\"" -> <<"\\", "\"">>
            [] Head(s) = "\\" -> <<"\\", "\\">>
            [] Head(s) = NL -> <<"\\", "n">>
            [] Head(s) = TAB -> <<"\\", "t">>
            [] Head(s) = CR -> <<"\\", "r">>
            [] OTHER -> <<Head(s)>>) \o JsonEscape(Tail(s))

RECURSIVE JSONStringify(_)
RECURSIVE JsonElements(_)
RECURSIVE JsonMembers(_, _)
\* JSON.stringify(v) for strings, null, arrays and objects
JSONStringify(v) ==
    CASE v.t = "string" -> <<"\"">> \o JsonEscape(v.v) \o <<"\"">>
      [] v.t = "array" -> <<"[">> \o JsonElements(v.v) \o <<"]">>
      [] v.t = "object" ->
            <<"{">> \o JsonMembers(v.v, EntriesInOrder(v.v, KeyOrder)) \o <<"}">>
      [] OTHER -> <<"n", "u", "l", "l">>
JsonElements(xs) ==
    IF xs = <<>> THEN <<>>
    ELSE JSONStringify(Head(xs))
         \o (IF Len(xs) > 1 THEN <<",">> \o JsonElements(Tail(xs)) ELSE <<>>)
JsonMembers(f, es) ==
    IF es = <<>> THEN <<>>
    ELSE <<"\"">> \o KeyText[Head(es).k] \o <<"\"", ":">> \o JSONStringify(Head(es).v)
         \o (IF Len(es) > 1 THEN <<",">> \o JsonMembers(f, Tail(es)) ELSE <<>>)

\* the characters removed by s.replace(/[\s"{}\[\]:,]/g, '')
DraftPunctuation == WsChars \cup {"\"", "{", "}", "[", "]", ":", ","}

\* hasDraftContent(state)
hasDraftContent(state) ==
    IF ~Truthy(state) THEN FALSE
    ELSE LET str == JSONStringify(state)
             keepChar(c) == c \notin DraftPunctuation
         IN Len(SelectSeq(str, keepChar)) > 0

(***************************************************************************)
(* buildResumeFromFormData.                                                *)
(***************************************************************************)
DefaultProjectDescription == <<"P","r","o","j","e","c","t",SP,"d","e","s","c","r","i","p","t","i","o","n">>

\* desc.split('\n').map(trim).filter(line => line).map(strip leading marker)
FormLines(desc) ==
    LET kept == SplitTrimmed(desc, {NL})
    IN [i \in 1..Len(kept) |-> StripLeadingMarker(kept[i])]

RECURSIVE BuildExperience(_)
BuildExperience(entries) ==
    IF entries = <<>> THEN <<>>
    ELSE LET e == Head(entries)
             company == TrimText(e.employer)
             position == TrimText(e.role)
             description == FormLines(e.desc)
         IN (IF company # <<>> /\ position # <<>> /\ Len(description) > 0
             THEN << Obj([company |-> Str(company),
                          position |-> Str(position),
                          location |-> Str(<<>>),
                          startDate |-> Str(e.startDate),
                          endDate |-> Str(e.endDate),
                          description |-> StrArr(description)]) >>
             ELSE <<>>) \o BuildExperience(Tail(entries))

RECURSIVE BuildEducation(_)
BuildEducation(entries) ==
    IF entries = <<>> THEN <<>>
    ELSE LET e == Head(entries)
             inst == TrimText(e.institution)
             deg == TrimText(e.degree)
         IN (IF inst # <<>> /\ deg # <<>>
             THEN << Obj([institution |-> Str(inst),
                          degree |-> Str(deg),
                          field |-> Str(<<>>),
                          startDate |-> Str(e.startDate),
                          endDate |-> Str(e.endDate),
                          gpa |-> Str(<<>>),
                          achievements |->
                              StrArr(SplitTrimmed(e.coursework, {","}))]) >>
             ELSE <<>>) \o BuildEducation(Tail(entries))

RECURSIVE BuildProjects(_)
BuildProjects(entries) ==
    IF entries = <<>> THEN <<>>
    ELSE LET e == Head(entries)
             projName == TrimText(e.name)
             descLines == FormLines(e.desc)
             joined == Join(descLines, <<SP>>)
         IN (IF projName # <<>>
             THEN << Obj([name |-> Str(projName),
                          description |-> IF joined # <<>> THEN Str(joined)
                                          ELSE Str(DefaultProjectDescription),
                          technologies |-> Arr(<<>>),
                          link |-> OrElse(Str(e.github), Null),
                          highlights |-> StrArr(descLines),
                          startDate |-> OrElse(Str(e.startDate), Null),
                          endDate |-> OrElse(Str(e.endDate), Null)]) >>
             ELSE <<>>) \o BuildProjects(Tail(entries))

RECURSIVE BuildSkills(_)
BuildSkills(entries) ==
    IF entries = <<>> THEN <<>>
    ELSE (IF TrimText(Head(entries).category) # <<>>
          THEN SplitTrimmed(Head(entries).skills, {","})
          ELSE <<>>) \o BuildSkills(Tail(entries))

\* buildResumeFromFormData(new FormData(form)); editing and snapshot are
\* editingResumeId and editingResumeSnapshot
buildResumeFromFormData(f, editing, snapshot, now, freshId) ==
    LET createdAt == IF Truthy(snapshot) /\ Truthy(Get(snapshot, "createdAt"))
                     THEN Get(snapshot, "createdAt") ELSE now
        resumeName == TrimText(f.resumeName)
        personalName == TrimText(f.name)
        allSkills == BuildSkills(f.skills)
    IN Obj([id |-> OrElse(editing, freshId),
            name |-> IF resumeName # <<>> THEN Str(resumeName)
                     ELSE IF personalName # <<>> THEN Str(personalName)
                     ELSE Str(DefaultName),
            createdAt |-> createdAt,
            updatedAt |-> now,
            personalInfo |-> Obj([name |-> Str(f.name), email |-> Str(f.email),
                                  phone |-> Str(f.phone),
                                  location |-> Str(f.location),
                                  linkedin |-> Str(f.linkedin),
                                  github |-> Str(f.github),
                                  website |-> Str(f.portfolio),
                                  summary |-> Str(f.summary)]),
            experience |-> Arr(BuildExperience(f.experience)),
            education |-> Arr(BuildEducation(f.education)),
            projects |-> Arr(BuildProjects(f.projects)),
            skills |-> IF Len(allSkills) > 0 THEN StrArr(allSkills)
                       ELSE StrArr(<<DefaultSkill>>),
            certifications |-> Arr(<<>>)])

(***************************************************************************)
(* Drafts.                                                                 *)
(***************************************************************************)
RESUME_DRAFT_VERSION == 1
NewKey == <<"n", "e", "w">>
EditPrefix == <<"e", "d", "i", "t", ":">>

\* getDraftKey()
getDraftKey(editing) ==
    IF Truthy(editing) THEN EditPrefix \o StringOf(editing) ELSE NewKey

\* drafts[key] || null, where drafts is a function from keys to drafts
getResumeDraft(ds, key) == IF key \in DOMAIN ds THEN ds[key] ELSE Null

\* storage.saveResumeDraft(key, draft): the drafts written back
saveResumeDraft(ds, key, draft) ==
    [k \in DOMAIN ds \cup {key} |-> IF k = key THEN draft ELSE ds[k]]

\* storage.clearResumeDraft(key): the drafts afterwards
clearResumeDraft(ds, key) == [k \in DOMAIN ds \ {key} |-> ds[k]]

\* the draft the debounce callback stores; its updatedAt, which no code reads,
\* is left out
NewDraft(state, editing) ==
    Obj([version |-> Num(RESUME_DRAFT_VERSION),
         editingResumeId |-> editing, data |-> state])

\* a draft accepted whatever its version
DraftUsableAnyVersion(draft) == Truthy(Get(draft, "data"))

\* the test of restoreDraftOrReset and restoreDraftOrPopulate:
\* draft?.version === RESUME_DRAFT_VERSION && draft?.data
DraftUsable(draft) ==
    /\ Get(draft, "version") = Num(RESUME_DRAFT_VERSION)
    /\ Truthy(Get(draft, "data"))

(***************************************************************************)
(* State.                                                                  *)
(***************************************************************************)
VARIABLES
    \* chrome.storage.local
    resumes,            \* KEYS.resumes: the resume map, entries in insertion order
    currentProfile,     \* KEYS.currentProfile: an id, or null
    drafts,             \* KEYS.resumeDrafts: function from draft key to draft
    \* popup.js module state
    loaded,             \* the DOMContentLoaded handler has run
    currentResume,
    currentProfileId,
    editingResumeId,
    editingResumeSnapshot,
    modalHidden,        \* #resume-modal carries the class "hidden"
    draftSaveTimer,     \* TRUE while the debounce timeout is pending
    form,               \* the values of the fields of #resume-form
    options,            \* the values of the <option>s of #resume-select
    restores,           \* getResumeDraft reads started by openModal, oldest first
    \* environment
    clock,              \* number of timestamps handed out
    idCount,            \* number of ids generated
    \* history
    cleared,            \* draft keys cleared by a submit or clear-draft with no
                        \* input event since
    \* pure functions under check
    fin,      \* argument of the pure function under check
    fout,     \* its result
    fout2,    \* the result of applying it again to fout
    fstage    \* "input", "once", "twice"

storageVars == <<resumes, currentProfile, drafts>>
popupVars == <<loaded, currentResume, currentProfileId, editingResumeId,
               editingResumeSnapshot, modalHidden, draftSaveTimer, form,
               options, restores>>
envVars == <<clock, idCount>>
appVars == <<storageVars, popupVars, envVars, cleared>>
funVars == <<fin, fout, fout2, fstage>>
vars == <<appVars, funVars>>

\* the extension before the popup is first opened on a fresh install
AppFresh ==
    /\ resumes = <<>>
    /\ currentProfile = Null
    /\ drafts = <<>>
    /\ loaded = FALSE
    /\ currentResume = Null
    /\ currentProfileId = Null
    /\ editingResumeId = Null
    /\ editingResumeSnapshot = Null
    /\ modalHidden = TRUE
    /\ draftSaveTimer = FALSE
    /\ form = BlankForm
    /\ options = {}
    /\ restores = <<>>
    /\ clock = 0
    /\ idCount = 0
    /\ cleared = {}

\* the pure-function variables while the application runs
FunIdle ==
    /\ fin = Null
    /\ fout = Null
    /\ fout2 = Null
    /\ fstage = "idle"

(***************************************************************************)
(* popup.js handlers.  The editor is a full-screen modal over the popup,   *)
(* so the controls of the page behind it (select, new, edit, delete,       *)
(* import, clear storage) are used only while it is hidden.                *)
(***************************************************************************)
MaxClock == 1
MaxIds == 1
MaxPending == 2

RECURSIVE LoadLoop(_, _, _)
\* the migration loop of loadResumes over the entries read at its start;
\* st is [store, mem, failed, wrote, ids]: the stored map, the in-memory map
\* built so far, whether an exception escaped, whether a record was written
\* through, and the number of ids generated
LoadLoop(entries, st, now) ==
    IF entries = <<>> \/ st.failed THEN st
    ELSE
    LET e == Head(entries)
        \* the rest of the iteration, given the number ids1 of ids generated
        \* once normalizeResume has run, its result n and isLegacyResume's
        Migrate(ids1, n, legacy) ==
            IF n = Throw \/ legacy = "throw"
            THEN [st EXCEPT !.failed = TRUE]
            ELSE LoadLoop(Tail(entries),
                    [store |-> IF legacy = "true"
                               THEN saveResume(st.store, IF Truthy(n) THEN n ELSE e.r,
                                               now, FreshId(ids1 + 1))
                               ELSE st.store,
                     mem |-> MapPut(st.mem, e.k, IF Truthy(n) THEN n ELSE e.r),
                     failed |-> FALSE,
                     wrote |-> st.wrote \/ legacy = "true",
                     ids |-> ids1],
                    now)
        Normalize(ids1) ==
            Migrate(ids1, normalizeResume(e.r, now, FreshId(ids1)),
                    isLegacyResume(e.r))
    IN Normalize(IF Trim(Get(e.r, "id")) = <<>> THEN st.ids + 1 ELSE st.ids)

\* the result of loadResumes, given the state st its loop ended in
LoadResult(st, p) ==
    [store |-> st.store, failed |-> st.failed, wrote |-> st.wrote, ids |-> st.ids,
     options |-> {StringOf(Get(st.mem[i].r, "id")) : i \in 1..Len(st.mem)},
     selected |-> Truthy(p) /\ MapHas(st.mem, StringOf(p)),
     resume |-> IF Truthy(p) /\ MapHas(st.mem, StringOf(p))
                THEN MapGet(st.mem, StringOf(p)) ELSE Null]

\* loadResumes() run on the stored map m with stored profile p
loadResumes(m, p, now, ids) ==
    LoadResult(LoadLoop(m, [store |-> m, mem |-> <<>>, failed |-> FALSE,
                            wrote |-> FALSE, ids |-> ids], now), p)

\* the state loadResumes leaves, given its result ld, the values cr and cp of
\* currentResume and currentProfileId before it, the stored profile p, and
\* whether the handler wrote a resume before calling it.  The option values
\* are kept as a set: the order of the <option> elements is not modelled.
ApplyLoad(ld, cr, cp, p, wroteBefore) ==
    /\ resumes' = ld.store
    /\ idCount' = ld.ids
    /\ clock' = IF ld.wrote \/ wroteBefore THEN clock + 1 ELSE clock
    /\ options' = IF ld.failed THEN options ELSE ld.options
    /\ currentResume' = IF ~ld.failed /\ ld.selected THEN ld.resume ELSE cr
    /\ currentProfileId' = IF ~ld.failed /\ ld.selected THEN p ELSE cp

\* a timestamp can still be handed out
CanStamp == clock < MaxClock
Now == TimeText(clock + 1)

\* document 'DOMContentLoaded': loadResumes, then the listeners are set up
DOMContentLoaded ==
    /\ ~loaded
    /\ LET Loaded(ld) ==
               /\ ld.wrote => CanStamp
               /\ ApplyLoad(ld, currentResume, currentProfileId, currentProfile, FALSE)
               /\ loaded' = ~ld.failed
       IN Loaded(loadResumes(resumes, currentProfile, Now, idCount))
    /\ UNCHANGED <<currentProfile, drafts, editingResumeId, editingResumeSnapshot,
                   modalHidden, draftSaveTimer, form, restores, cleared, funVars>>

\* the popup window is closed: the page and its timers are discarded,
\* storage stays
ClosePopup ==
    /\ loaded
    /\ loaded' = FALSE
    /\ currentResume' = Null
    /\ currentProfileId' = Null
    /\ editingResumeId' = Null
    /\ editingResumeSnapshot' = Null
    /\ modalHidden' = TRUE
    /\ draftSaveTimer' = FALSE
    /\ form' = BlankForm
    /\ options' = {}
    /\ restores' = <<>>
    /\ cleared' = {}
    /\ UNCHANGED <<storageVars, envVars, funVars>>

\* handleResumeSelect(e) with e.target.value = v ('' or the value of an option)
HandleResumeSelect(v) ==
    /\ loaded
    /\ modalHidden
    /\ IF v = <<>>
       THEN /\ currentResume' = Null
            /\ currentProfileId' = Null
            /\ currentProfile' = Null
            /\ UNCHANGED <<resumes, clock>>
       ELSE /\ v \in options
            /\ MapHas(resumes, v)
            /\ LET Selected(raw, cur, legacy) ==
                       /\ legacy = "true" => CanStamp
                       /\ currentResume' = cur
                       /\ currentProfileId' = Str(v)
                       /\ resumes' = IF legacy = "true"
                                     THEN saveResume(resumes, cur, Now,
                                                     FreshId(idCount + 1))
                                     ELSE resumes
                       /\ clock' = IF legacy = "true" THEN clock + 1 ELSE clock
                       /\ currentProfile' = Str(v)
                   Normalized(raw, n, legacy) ==
                       /\ n # Throw /\ legacy # "throw"
                       /\ Selected(raw, IF Truthy(n) THEN n ELSE raw, legacy)
                   Found(raw) ==
                       Normalized(raw, normalizeResume(raw, Now, FreshId(idCount + 1)),
                                  isLegacyResume(raw))
               IN Found(MapGet(resumes, v))
    /\ UNCHANGED <<drafts, loaded, editingResumeId, editingResumeSnapshot,
                   modalHidden, draftSaveTimer, form, options, restores,
                   idCount, cleared, funVars>>

\* openModal(resume): resume is null for the new-resume button
openModal(resume) ==
    /\ loaded
    /\ modalHidden
    /\ Len(restores) < MaxPending
    /\ editingResumeId' = IF Truthy(resume) /\ Truthy(Get(resume, "id"))
                          THEN Get(resume, "id") ELSE Null
    /\ editingResumeSnapshot' = resume
    /\ form' = BlankForm
    /\ restores' = Append(restores,
           IF Truthy(resume)
           THEN [key |-> getDraftKey(editingResumeId'), populate |-> TRUE,
                 resume |-> resume]
           ELSE [key |-> NewKey, populate |-> FALSE, resume |-> Null])
    /\ modalHidden' = FALSE
    /\ UNCHANGED <<storageVars, loaded, currentResume, currentProfileId,
                   draftSaveTimer, options, envVars, cleared, funVars>>

OpenModalNew == openModal(Null)

OpenModalEdit == currentResume # Null /\ openModal(currentResume)

\* the form a restore leaves, given the draft it read
RestoredForm(req, draft, before) ==
    IF DraftUsable(draft) THEN applyResumeFormState(Get(draft, "data"))
    ELSE IF req.populate THEN populateForm(req.resume)
    ELSE before

\* the storage read of restoreDraftOrReset / restoreDraftOrPopulate completes
RestoreDraft ==
    /\ loaded
    /\ restores # <<>>
    /\ form' = RestoredForm(Head(restores),
                            getResumeDraft(drafts, Head(restores).key), form)
    /\ restores' = Tail(restores)
    /\ UNCHANGED <<storageVars, loaded, currentResume, currentProfileId,
                   editingResumeId, editingResumeSnapshot, modalHidden,
                   draftSaveTimer, options, envVars, cleared, funVars>>

\* closeModal()
closeModal ==
    /\ loaded
    /\ ~modalHidden
    /\ modalHidden' = TRUE
    /\ UNCHANGED <<storageVars, loaded, currentResume, currentProfileId,
                   editingResumeId, editingResumeSnapshot, draftSaveTimer, form,
                   options, restores, envVars, cleared, funVars>>

\* an 'input' event on the form leaves it showing f: queueSaveDraft()
FormInput(f) ==
    /\ loaded
    /\ ~modalHidden
    /\ form' = f
    /\ draftSaveTimer' = TRUE
    /\ cleared' = {}
    /\ UNCHANGED <<storageVars, loaded, currentResume, currentProfileId,
                   editingResumeId, editingResumeSnapshot, modalHidden, options,
                   restores, envVars, funVars>>

\* the callback queueSaveDraft handed to setTimeout runs
DraftTimerFire ==
    /\ draftSaveTimer
    /\ draftSaveTimer' = FALSE
    /\ LET Write(state, key) ==
               drafts' = IF ~hasDraftContent(state)
                         THEN clearResumeDraft(drafts, key)
                         ELSE saveResumeDraft(drafts, key,
                                  NewDraft(state, editingResumeId))
       IN Write(collectResumeFormState(form), getDraftKey(editingResumeId))
    /\ UNCHANGED <<resumes, currentProfile, loaded, currentResume, currentProfileId,
                   editingResumeId, editingResumeSnapshot, modalHidden, form,
                   options, restores, envVars, cleared, funVars>>

\* handleClearDraft()
HandleClearDraft ==
    /\ loaded
    /\ ~modalHidden
    /\ drafts' = clearResumeDraft(drafts, getDraftKey(editingResumeId))
    /\ IF Truthy(editingResumeSnapshot)
       THEN /\ form' = populateForm(editingResumeSnapshot)
            /\ UNCHANGED <<editingResumeId, editingResumeSnapshot>>
       ELSE /\ form' = BlankForm
            /\ editingResumeId' = Null
            /\ editingResumeSnapshot' = Null
    /\ cleared' = cleared \cup {getDraftKey(editingResumeId)}
    /\ UNCHANGED <<resumes, currentProfile, loaded, currentResume, currentProfileId,
                   modalHidden, draftSaveTimer, options, restores, envVars, funVars>>

\* handleSaveResume(e): the form is submitted
HandleSaveResume ==
    /\ loaded
    /\ ~modalHidden
    /\ CanStamp
    /\ Truthy(editingResumeId) \/ idCount < MaxIds
    /\ LET Reloaded(profile, ld) ==
               /\ currentProfile' = profile
               /\ ApplyLoad(ld, currentResume, currentProfileId, profile, TRUE)
           Saved(ids1, resume) ==
               Reloaded(Get(resume, "id"),
                        loadResumes(saveResume(resumes, resume, Now, FreshId(ids1)),
                                    Get(resume, "id"), Now, ids1))
           Built(ids1) ==
               Saved(ids1, buildResumeFromFormData(form, editingResumeId,
                               editingResumeSnapshot, Now, FreshId(ids1)))
       IN Built(IF Truthy(editingResumeId) THEN idCount ELSE idCount + 1)
    /\ drafts' = clearResumeDraft(drafts, getDraftKey(editingResumeId))
    /\ modalHidden' = TRUE
    /\ cleared' = cleared \cup {getDraftKey(editingResumeId)}
    /\ UNCHANGED <<loaded, editingResumeId, editingResumeSnapshot, draftSaveTimer,
                   form, restores, funVars>>

\* a delete that removes the resume and leaves the stored current profile
HandleDeleteResumeKeepingProfile ==
    /\ loaded
    /\ modalHidden
    /\ currentResume # Null
    /\ ApplyLoad(loadResumes(deleteResume(resumes,
                                  StringOf(Get(currentResume, "id"))),
                              currentProfile, Now, idCount),
                  Null, Null, currentProfile, FALSE)
    /\ UNCHANGED <<currentProfile, drafts, loaded, editingResumeId,
                   editingResumeSnapshot, modalHidden, draftSaveTimer, form,
                   restores, cleared, funVars>>

\* handleDeleteResume(), the confirm dialog accepted
HandleDeleteResume ==
    /\ loaded
    /\ modalHidden
    /\ currentResume # Null
    /\ ApplyLoad(loadResumes(deleteResume(resumes,
                                  StringOf(Get(currentResume, "id"))),
                              Null, Now, idCount),
                  Null, Null, Null, FALSE)
    /\ currentProfile' = Null
    /\ UNCHANGED <<drafts, loaded, editingResumeId, editingResumeSnapshot,
                   modalHidden, draftSaveTimer, form, restores, cleared, funVars>>

\* handleImportFileChange(e) for a file whose text parses to parsed (Throw
\* when it is not JSON)
HandleImportFileChange(parsed) ==
    /\ loaded
    /\ modalHidden
    /\ CanStamp
    /\ LET Imported(res) ==
               /\ res.c <= MaxIds
               /\ IF res.error
                  THEN UNCHANGED <<resumes, currentProfile, currentResume,
                                   currentProfileId, options, envVars>>
                  ELSE /\ currentProfile' = res.profile
                       /\ ApplyLoad(loadResumes(res.next, res.profile, Now, res.c),
                                    currentResume, currentProfileId, res.profile,
                                    TRUE)
       IN Imported(importResumes(parsed, FALSE, resumes, currentProfile, Now,
                                 idCount))
    /\ UNCHANGED <<drafts, loaded, editingResumeId, editingResumeSnapshot,
                   modalHidden, draftSaveTimer, form, restores, cleared, funVars>>

\* handleClearStorage(), the confirm dialog accepted
HandleClearStorage ==
    /\ loaded
    /\ modalHidden
    /\ drafts' = <<>>
    /\ currentProfile' = Null
    /\ LET ld == loadResumes(<<>>, Null, Now, idCount)
       IN ApplyLoad(ld, Null, Null, Null, FALSE)
    /\ UNCHANGED <<loaded, editingResumeId, editingResumeSnapshot, modalHidden,
                   draftSaveTimer, form, restores, cleared, funVars>>

(***************************************************************************)
(* parseBullets applied and re-applied to bounded inputs.                  *)
(***************************************************************************)
MaxLines == 2

LineMarkers == { <<>>, <<BULLET, SP>>, <<"-", SP>>, <<"1", ".", SP>> }
LongBody == <<"S","h","i","p","p","e","d",SP,"t","h","e",SP,
              "n","e","w",SP,"A","P","I","s">>
LineBodies == { <<"d","i","d",SP,"i","t">>, <<"J","a","v","a">>,
                <<"D","o","n","e",".">>, LongBody, <<"-",SP,"G","o">> }
InputLines == { m \o b : m \in LineMarkers, b \in LineBodies }

RECURSIVE SeqsUpTo(_, _)
\* all sequences over S of length at most n
SeqsUpTo(S, n) ==
    IF n = 0 THEN { <<>> }
    ELSE LET shorter == SeqsUpTo(S, n - 1)
         IN shorter \cup { Append(q, x) : q \in shorter, x \in S }

BulletInputs ==
    LET ls == SeqsUpTo(InputLines, MaxLines)
    IN {Undef, Null}
       \cup { Str(Join(l, <<NL>>)) : l \in ls }
       \cup { Str(Join(l, <<SP>>)) : l \in ls }
       \cup { StrArr(l) : l \in ls }

InitBullets ==
    /\ AppFresh
    /\ fin \in BulletInputs
    /\ fout = <<>>
    /\ fout2 = <<>>
    /\ fstage = "input"

ApplyParseBullets ==
    /\ fstage = "input"
    /\ fout' = parseBullets(fin)
    /\ fstage' = "once"
    /\ UNCHANGED <<fin, fout2, appVars>>

ReapplyParseBullets ==
    /\ fstage = "once"
    /\ fout2' = parseBullets(StrArr(fout))
    /\ fstage' = "twice"
    /\ UNCHANGED <<fin, fout, appVars>>

NextBullets == ApplyParseBullets \/ ReapplyParseBullets

SpecBullets == InitBullets /\ [][NextBullets]_vars

\* C3: parseBullets applied to its own output returns that output
C3_ParseBulletsIdempotent == fstage = "twice" => fout2 = fout

(***************************************************************************)
(* normalizeResume applied and re-applied to bounded raw resumes.  Each    *)
(* input varies one section of a base resume.                              *)
(***************************************************************************)
MaxEntries == 2

TxAcme == <<"A","c","m","e">>
TxAcme2 == <<"A","c","m","e","2">>
TxDev == <<"D","e","v">>
TxEng == <<"E","n","g">>
TxMIT == <<"M","I","T">>
TxBS == <<"B","S">>
TxAI == <<"A","I">>
TxML == <<"M","L">>
TxHonors == <<"H","o","n","o","r","s">>
TxTool == <<"T","o","o","l">>
TxJane == <<"J","a","n","e">>
TxMail == <<"j","@","x",".","i","o">>
TxSite == <<"w",".","i","o">>
TxOldSite == <<"p",".","i","o">>
TxRepo == <<"g","i","t",".","i","o">>
TxDemo == <<"d","e","m","o",".","i","o">>
TxGo == <<"G","o">>
TxRust == <<"R","u","s","t">>
TxTwoBullets == <<"-",SP,"G","o",NL,"-",SP,"R","u","s","t">>
TxBuiltIt == <<"B","u","i","l","t",SP,"i","t",".">>
TxProjText == <<"T","o","o","l",SP,BULLET,SP,"F","a","s","t",SP,BULLET,SP,"S","m","a","l","l">>

\* the absent key, or the key k bound to one of vals
OptKey(k, vals) == { <<>> } \cup { [x \in {k} |-> v] : v \in vals }

RawDescriptions == { Str(TxTwoBullets), StrArr(<<TxBuiltIt>>), Str(<<>>) }

RawExperienceEntries ==
    { Obj(c @@ e @@ [position |-> Str(TxDev), description |-> d]) :
        c \in OptKey("company", {Str(<<>>), Str(TxAcme2)}),
        e \in OptKey("employer", {Str(TxAcme)}),
        d \in RawDescriptions }
    \cup
    { Obj(q @@ r @@ [company |-> Str(TxAcme), description |-> StrArr(<<TxBuiltIt>>)]) :
        q \in OptKey("position", {Str(<<SP>>), Str(TxDev)}),
        r \in OptKey("role", {Str(TxEng)}) }

RawEducationEntries ==
    { Obj(a @@ c @@ [institution |-> Str(TxMIT), degree |-> g]) :
        a \in OptKey("achievements", {Arr(<<>>), StrArr(<<TxHonors>>)}),
        c \in OptKey("coursework", {StrArr(<<TxAI>>), Str(TxAI \o <<NL>> \o TxML)}),
        g \in {Str(TxBS), Str(<<>>)} }

RawProjectEntries ==
    { Obj(l @@ g @@ d @@ [name |-> Str(TxTool)]) :
        l \in OptKey("link", {Str(<<>>), Str(TxDemo)}),
        g \in OptKey("github", {Str(TxRepo)}),
        d \in OptKey("description", {Str(TxProjText), Str(TxTwoBullets),
                                     StrArr(<<TxBuiltIt>>)}) }

RawPersonalInfos ==
    { Obj(w @@ o @@ [name |-> Str(TxJane), email |-> Str(TxMail)]) :
        w \in OptKey("website", {Str(<<>>), Str(TxSite)}),
        o \in OptKey("portfolio", {Str(TxOldSite)}) }

RawSkills ==
    { Undef,
      StrArr(<<DefaultSkill>>),
      StrArr(<<TxGo, TxRust>>),
      StrArr(<<TxGo, ToLowerCase(TxGo) \o <<SP>> >>),
      Str(TxGo \o <<",", SP>> \o TxRust),
      Obj([Languages |-> StrArr(<<TxGo, TxRust>>), Tools |-> Str(TxGo \o <<",">> \o TxML)]),
      Arr(<< Obj([category |-> Str(TxML), skills |-> Str(TxGo \o <<";">> \o TxRust)]) >>) }

BaseRaw ==
    [personalInfo |-> Obj([name |-> Str(TxJane), email |-> Str(TxMail)]),
     experience |-> Arr(<<>>), education |-> Arr(<<>>), projects |-> Arr(<<>>),
     skills |-> StrArr(<<TxGo>>)]

\* the entries that are also combined into longer lists
CoreExperienceEntries ==
    { Obj([company |-> Str(<<>>), employer |-> Str(TxAcme), position |-> Str(TxDev),
           description |-> Str(TxTwoBullets)]),
      Obj([company |-> Str(TxAcme), position |-> Str(TxDev), role |-> Str(TxEng),
           description |-> StrArr(<<TxBuiltIt>>)]),
      Obj([company |-> Str(TxAcme2), position |-> Str(TxEng),
           description |-> Str(TxTwoBullets)]) }
CoreEducationEntries ==
    { Obj([institution |-> Str(TxMIT), degree |-> Str(TxBS),
           coursework |-> StrArr(<<TxAI>>)]),
      Obj([institution |-> Str(TxMIT), degree |-> Str(<<>>)]),
      Obj([institution |-> Str(TxMIT), degree |-> Str(TxBS),
           achievements |-> StrArr(<<TxHonors>>)]) }
CoreProjectEntries ==
    { Obj([name |-> Str(TxTool), link |-> Str(<<>>), github |-> Str(TxRepo),
           description |-> Str(TxProjText)]),
      Obj([name |-> Str(TxTool), link |-> Str(TxDemo)]),
      Obj([name |-> Str(TxTool), link |-> Str(TxDemo),
           description |-> Str(TxBuiltIt)]) }

\* every entry on its own, and the lists of at most MaxEntries core entries
EntryLists(all, core) ==
    { <<e>> : e \in all } \cup SeqsUpTo(core, MaxEntries)

\* list entries that are null, a string, an empty list and an empty object
MalformedEntries == { Null, Str(TxAcme), Arr(<<>>), Obj(<<>>) }

\* a malformed entry alone and in front of a well-formed one
MalformedLists(core) ==
    { <<m>> : m \in MalformedEntries }
    \cup { <<m, e>> : m \in MalformedEntries, e \in core }

RawResumes ==
    { Obj([BaseRaw EXCEPT !.experience = Arr(es)]) :
        es \in EntryLists(RawExperienceEntries, CoreExperienceEntries) }
    \cup { Obj([BaseRaw EXCEPT !.education = Arr(es)]) :
        es \in EntryLists(RawEducationEntries, CoreEducationEntries) }
    \cup { Obj([BaseRaw EXCEPT !.projects = Arr(es)]) :
        es \in EntryLists(RawProjectEntries, CoreProjectEntries) }
    \cup { Obj([BaseRaw EXCEPT !.experience = Arr(es)]) :
        es \in MalformedLists(CoreExperienceEntries) }
    \cup { Obj([BaseRaw EXCEPT !.education = Arr(es)]) :
        es \in MalformedLists(CoreEducationEntries) }
    \cup { Obj([BaseRaw EXCEPT !.projects = Arr(es)]) :
        es \in MalformedLists(CoreProjectEntries) }
    \cup { Obj([BaseRaw EXCEPT !.personalInfo = pi]) : pi \in RawPersonalInfos }
    \cup { Obj([BaseRaw EXCEPT !.skills = sk]) : sk \in RawSkills }

InitNorm ==
    /\ AppFresh
    /\ fin \in RawResumes
    /\ fout = Null
    /\ fout2 = Null
    /\ fstage = "input"

ApplyNormalizeResume ==
    /\ fstage = "input"
    /\ fout' = normalizeResume(fin, TimeText(1), FreshId(1))
    /\ fstage' = "once"
    /\ UNCHANGED <<fin, fout2, appVars>>

ReapplyNormalizeResume ==
    /\ fstage = "once"
    /\ fout # Throw
    /\ fout2' = normalizeResume(fout, TimeText(2), FreshId(2))
    /\ fstage' = "twice"
    /\ UNCHANGED <<fin, fout, appVars>>

NextNorm == ApplyNormalizeResume \/ ReapplyNormalizeResume

SpecNorm == InitNorm /\ [][NextNorm]_vars

\* a resume with its timestamp fields blanked
WithoutTimestamps(r) ==
    IF r.t = "object" /\ {"createdAt", "updatedAt"} \subseteq DOMAIN r.v
    THEN Obj([r.v EXCEPT !.createdAt = Null, !.updatedAt = Null])
    ELSE r

\* C1: normalizeResume(normalizeResume(r)) deep-equals normalizeResume(r),
\* timestamps ignored
C1_NormalizeResumeIdempotent ==
    fstage = "twice" => WithoutTimestamps(fout2) = WithoutTimestamps(fout)

\* the value the field reconciler is to choose for the pair (cur, leg):
\* the current name's value if non-empty after trimming, else the legacy one
ResolvedText(o, cur, leg) ==
    IF Trim(Get(o, cur)) # <<>> THEN Trim(Get(o, cur)) ELSE Trim(Get(o, leg))

\* the same for a list-valued pair
ResolvedList(o, cur, leg) ==
    IF IsArray(Get(o, cur)) /\ Get(o, cur).v # <<>> THEN Get(o, cur)
    ELSE IF IsArray(Get(o, leg)) THEN Get(o, leg)
    ELSE Get(o, cur)

ExperienceResolvedKept(x) ==
    /\ ResolvedText(x, "company", "employer") # <<>>
    /\ ResolvedText(x, "position", "role") # <<>>
    /\ parseBullets(Get(x, "description")) # <<>>

ProjectKept(p) == KeepProject(normalizeProjectEntry(p))
EducationKept(e) == KeepEducation(normalizeEducationEntry(e))

\* C6: every name pair resolves to the current name's value when that is
\* non-empty after trimming, else to the legacy name's value, else to empty
C6_FieldPrecedence ==
    (fstage # "input" /\ fout.t = "object") =>
        LET ex == SelectSeq(fin.v.experience.v, ExperienceResolvedKept)
            pr == SelectSeq(fin.v.projects.v, ProjectKept)
            ed == SelectSeq(fin.v.education.v, EducationKept)
            pi == fin.v.personalInfo
            site == ResolvedText(pi, "website", "portfolio")
        IN /\ [i \in 1..Len(fout.v.experience.v) |->
                  <<fout.v.experience.v[i].v.company.v,
                    fout.v.experience.v[i].v.position.v>>]
              = [i \in 1..Len(ex) |->
                  <<ResolvedText(ex[i], "company", "employer"),
                    ResolvedText(ex[i], "position", "role")>>]
           /\ fout.v.personalInfo.v.website
              = IF site # <<>> THEN Str(site) ELSE Null
           /\ [i \in 1..Len(fout.v.projects.v) |-> fout.v.projects.v[i].v.link]
              = [i \in 1..Len(pr) |->
                  LET l == ResolvedText(pr[i], "link", "github")
                  IN IF l # <<>> THEN Str(l) ELSE Null]
           /\ \A i \in 1..Len(ed) :
                  (IsArray(Get(ed[i], "achievements")) /\ IsArray(Get(ed[i], "coursework")))
                  => fout.v.education.v[i].v.achievements
                     = ResolvedList(ed[i], "achievements", "coursework")


(***************************************************************************)
(* The popup as a state machine.                                           *)
(***************************************************************************)
TxId == <<"r", "1">>
TxOldDraft == <<"o", "l", "d">>

\* the forms an input event can leave: every field blank, and a name and an
\* experience entry typed
FormInputs ==
    { BlankForm,
      [BlankForm EXCEPT !.name = TxJane, !.experience =
          << [employer |-> TxAcme, role |-> TxDev, startDate |-> <<>>,
              endDate |-> <<>>, desc |-> TxTwoBullets] >>] }

\* the parsed content of the files offered to the import: not JSON, and a
\* backup holding one resume with id r1
ImportFiles ==
    { Throw,
      Obj([resumes |-> Arr(<< Obj([id |-> Str(TxId), name |-> Str(TxJane)] @@ BaseRaw) >>)]) }

\* what a build with another draft schema left under a draft key
StaleDraft ==
    Obj([version |-> Num(RESUME_DRAFT_VERSION - 1), editingResumeId |-> Null,
         data |-> collectResumeFormState([BlankForm EXCEPT !.name = TxOldDraft])])

\* the record an earlier build stored under r1
StoredByEarlierBuild ==
    Obj([id |-> Str(TxId), name |-> Str(TxJane),
         createdAt |-> TimeText(0), updatedAt |-> TimeText(0),
         personalInfo |-> Obj([name |-> Str(TxJane), email |-> Str(TxMail),
                               portfolio |-> Str(TxOldSite)]),
         experience |-> Arr(<< Obj([employer |-> Str(TxAcme), role |-> Str(TxDev),
                                    description |-> Str(TxBuiltIt)]) >>),
         education |-> Arr(<<>>), projects |-> Arr(<<>>),
         skills |-> StrArr(<<TxGo>>)])

\* a fresh install
Init == AppFresh /\ FunIdle

\* the popup opened on storage an installation with an earlier build left
InitUpgrade ==
    /\ FunIdle
    /\ resumes = << [k |-> TxId, r |-> StoredByEarlierBuild] >>
    /\ currentProfile = Str(TxId)
    /\ drafts = saveResumeDraft(saveResumeDraft(<<>>, NewKey, StaleDraft),
                                EditPrefix \o TxId, StaleDraft)
    /\ loaded = FALSE
    /\ currentResume = Null
    /\ currentProfileId = Null
    /\ editingResumeId = Null
    /\ editingResumeSnapshot = Null
    /\ modalHidden = TRUE
    /\ draftSaveTimer = FALSE
    /\ form = BlankForm
    /\ options = {}
    /\ restores = <<>>
    /\ clock = 0
    /\ idCount = 0
    /\ cleared = {}

Next ==
    \/ DOMContentLoaded
    \/ ClosePopup
    \/ \E v \in {<<>>} \cup options : HandleResumeSelect(v)
    \/ OpenModalNew
    \/ OpenModalEdit
    \/ RestoreDraft
    \/ closeModal
    \/ \E f \in FormInputs : FormInput(f)
    \/ DraftTimerFire
    \/ HandleClearDraft
    \/ HandleSaveResume
    \/ HandleDeleteResume
    \/ \E parsed \in ImportFiles : HandleImportFileChange(parsed)
    \/ HandleClearStorage

Spec == Init /\ [][Next]_vars

\* the editor and its drafts, with the resumes written only by migration
NextEditor ==
    \/ DOMContentLoaded
    \/ ClosePopup
    \/ \E v \in {<<>>} \cup options : HandleResumeSelect(v)
    \/ OpenModalNew
    \/ OpenModalEdit
    \/ RestoreDraft
    \/ closeModal
    \/ \E f \in FormInputs : FormInput(f)
    \/ DraftTimerFire
    \/ HandleClearDraft

SpecUpgrade == InitUpgrade /\ [][NextEditor]_vars

(***************************************************************************)
(* C2: a stored record that loadResumes or handleResumeSelect migrates is  *)
(* not legacy-shaped afterwards, so no later read migrates it again.       *)
(***************************************************************************)
\* the keys whose stored record is legacy-shaped
LegacyKeys(m) == { m[i].k : i \in { j \in 1..Len(m) : isLegacyResume(m[j].r) = "true" } }

\* this step ran the migration on the stored record under k
Migrates(k) ==
    /\ k \in LegacyKeys(resumes)
    /\ \/ DOMContentLoaded
       \/ HandleResumeSelect(k)

C2_MigrationConverges ==
    [][\A k \in LegacyKeys(resumes) : Migrates(k) => k \notin LegacyKeys(resumes')]_vars

(***************************************************************************)
(* C4: once handleSaveResume or handleClearDraft has completed, storage    *)
(* holds no draft under the session's draft key until the next input event.*)
(* cleared holds the keys cleared since the last input event.              *)
(***************************************************************************)
C4_ClearedDraftStaysCleared == \A k \in cleared : k \notin DOMAIN drafts

(***************************************************************************)
(* C5: no draft is written to storage while the editor is closed: closing  *)
(* the editor drops the pending debounced save.                            *)
(***************************************************************************)
\* a draft is added or replaced by the step
DraftWritten ==
    \E k \in DOMAIN drafts' : k \notin DOMAIN drafts \/ drafts'[k] # drafts[k]

C5_NoDraftWriteAfterClose == [][modalHidden => ~DraftWritten]_vars

(***************************************************************************)
(* C7: when the debounce callback runs on a form whose fields are all      *)
(* blank, storage holds no draft under the draft key afterwards.           *)
(***************************************************************************)
\* every field of every entry is blank
AllBlank(entries) ==
    \A i \in 1..Len(entries) :
        \A k \in DOMAIN entries[i] : TrimText(entries[i][k]) = <<>>

FormIsBlank(f) ==
    /\ \A k \in {"resumeName", "name", "email", "phone", "location", "linkedin",
                 "portfolio", "github", "summary"} : TrimText(f[k]) = <<>>
    /\ AllBlank(f.experience) /\ AllBlank(f.education)
    /\ AllBlank(f.projects) /\ AllBlank(f.skills)

C7_BlankDraftNeverPersisted ==
    [][(DraftTimerFire /\ FormIsBlank(form))
         => getDraftKey(editingResumeId) \notin DOMAIN drafts']_vars

(***************************************************************************)
(* C9: when handleDeleteResume has deleted the selected resume, the map    *)
(* has no entry for its id, the current profile is no longer that id, and  *)
(* no draft is stored under "edit:<id>".                                   *)
(***************************************************************************)
C9_DeleteCascades ==
    [][HandleDeleteResume =>
         LET id == StringOf(Get(currentResume, "id"))
         IN /\ ~MapHas(resumes', id)
            /\ currentProfile' # Str(id)
            /\ (EditPrefix \o id) \notin DOMAIN drafts']_vars

(***************************************************************************)
(* C8: openModal resets the form and asks for the draft under "new" or     *)
(* "edit:<id>"; when the read completes, a draft whose version is the      *)
(* current draft schema version populates the form, and in every other     *)
(* case the form gets the saved record (editing) or is left as the reset   *)
(* left it (new resume).                                                   *)
(***************************************************************************)
Last(q) == q[Len(q)]

C8_DraftPrecedenceOnOpen ==
    [][/\ OpenModalNew => form' = BlankForm /\ Last(restores').key = NewKey
       /\ OpenModalEdit =>
              /\ form' = BlankForm
              /\ Last(restores').key = EditPrefix \o StringOf(Get(currentResume, "id"))
              /\ Last(restores').resume = currentResume
       /\ RestoreDraft =>
              LET req == Head(restores)
                  draft == getResumeDraft(drafts, req.key)
              IN IF draft # Null /\ Get(draft, "version") = Num(RESUME_DRAFT_VERSION)
                 THEN form' = applyResumeFormState(Get(draft, "data"))
                 ELSE IF req.populate THEN form' = populateForm(req.resume)
                 ELSE form' = form]_vars

\* the editor is open on a stored resume whose draft has another version,
\* and the restore has filled the form from the saved record
C8_StaleDraftIgnored ==
    /\ ~modalHidden
    /\ restores = <<>>
    /\ Truthy(editingResumeId)
    /\ getDraftKey(editingResumeId) \in DOMAIN drafts
    /\ Get(drafts[getDraftKey(editingResumeId)], "version") # Num(RESUME_DRAFT_VERSION)
    /\ form = populateForm(editingResumeSnapshot)
    /\ form # BlankForm

(***************************************************************************)
(* importResumesFromJSONText applied to bounded files and resume maps.     *)
(***************************************************************************)
MaxImported == 2
TxId2 == <<"r", "2">>
TxBob == <<"B", "o", "b">>

\* the records a backup file can hold: ids r1 and r2, and one without an id
FileRecords ==
    { Obj([id |-> Str(TxId), name |-> Str(TxJane)] @@ BaseRaw),
      Obj([id |-> Str(TxId2), name |-> Str(TxBob)] @@ BaseRaw),
      Obj([name |-> Str(TxJane)] @@ BaseRaw) }

\* the resume maps storage can hold before the import
StoredMaps ==
    LET one == saveResume(<<>>, StoredByEarlierBuild, TimeText(0), FreshId(0))
        two == saveResume(one, Obj([id |-> Str(TxId2), name |-> Str(TxAcme)] @@ BaseRaw),
                          TimeText(0), FreshId(0))
    IN { <<>>, one, two }

\* parsed files that hold no resume: null, a backup with an empty list or
\* an empty map, and an object that does not look like a resume
EmptyFiles ==
    { Null, Obj([resumes |-> Arr(<<>>)]), Obj([resumes |-> Obj(<<>>)]),
      Obj([name |-> Str(TxJane)]) }

\* parsed files of the other two shapes: a backup whose resumes field is a
\* map keyed by id, and a single resume
MapAndSingleFiles ==
    { Obj([resumes |-> Obj([r1 |-> r])]) : r \in FileRecords } \cup FileRecords

ImportInputs ==
    [parsed : {Throw} \cup { Arr(l) : l \in SeqsUpTo(FileRecords, MaxImported) }
                      \cup { Obj([resumes |-> Arr(<<r>>)]) : r \in FileRecords }
                      \cup MapAndSingleFiles
                      \cup EmptyFiles,
     overwrite : BOOLEAN,
     existing : StoredMaps,
     current : {Null, Str(TxId)}]

InitImport ==
    /\ AppFresh
    /\ fin \in ImportInputs
    /\ fout = Null
    /\ fout2 = Null
    /\ fstage = "input"

ApplyImport ==
    /\ fstage = "input"
    /\ fout' = importResumes(fin.parsed, fin.overwrite, fin.existing, fin.current,
                             TimeText(1), 0)
    /\ fstage' = "once"
    /\ UNCHANGED <<fin, fout2, appVars>>

NextImport == ApplyImport

SpecImport == InitImport /\ [][NextImport]_vars

(***************************************************************************)
(* C10: the import handles each normalized incoming record by its id: an   *)
(* id not in the map is inserted and counted as added; an id in the map is *)
(* replaced and counted as overwritten when overwrite is true; otherwise   *)
(* the entry under the id stays as it was and the record is inserted under *)
(* a new id with " (imported)" appended to its name, counted as deduped.   *)
(***************************************************************************)
\* the normalized incoming records of the file
Incoming == ShapeAll(coerceImportedResumes(fin.parsed), TimeText(1), 0).list
IncomingId(i) == Incoming[i].v.id.v
ExistingIds == { fin.existing[i].k : i \in 1..Len(fin.existing) }
\* the id of record i is in the map when the record is handled
Present(i) == IncomingId(i) \in ExistingIds \/ \E j \in 1..(i - 1) : IncomingId(j) = IncomingId(i)
\* no later record replaces the entry record i leaves
Stays(i) == ~fin.overwrite \/ ~\E j \in (i + 1)..Len(Incoming) : IncomingId(j) = IncomingId(i)
Stamped(r) == Obj([r.v EXCEPT !.updatedAt = TimeText(1)])
\* without overwrite, the entry under the id of record i before the record
\* was handled: the stored one, or the earlier record of the file added under it
EntryBefore(i) ==
    IF IncomingId(i) \in ExistingIds THEN MapGet(fin.existing, IncomingId(i))
    ELSE Stamped(Incoming[CHOOSE j \in 1..(i - 1) :
                     /\ IncomingId(j) = IncomingId(i)
                     /\ \A h \in 1..(j - 1) : IncomingId(h) # IncomingId(i)])
ImportedCopy(r, k) ==
    Obj([r.v EXCEPT !.id = Str(k), !.name = Str(StringOf(r.v.name) \o ImportedSuffix),
                    !.updatedAt = TimeText(1)])

C10_ImportPerRecord ==
    (fstage = "once" /\ ~fout.error) =>
        LET n == Len(Incoming)
            added == { i \in 1..n : ~Present(i) }
            overwritten == { i \in 1..n : Present(i) /\ fin.overwrite }
            deduped == { i \in 1..n : Present(i) /\ ~fin.overwrite }
            newKeys == { fout.next[i].k : i \in 1..Len(fout.next) }
                       \ (ExistingIds \cup { IncomingId(i) : i \in 1..n })
        IN /\ fout.added = Cardinality(added)
           /\ fout.overwritten = Cardinality(overwritten)
           /\ fout.deduped = Cardinality(deduped)
           /\ Cardinality(newKeys) = Cardinality(deduped)
           /\ \A i \in added \cup overwritten :
                 Stays(i) => /\ MapHas(fout.next, IncomingId(i))
                             /\ MapGet(fout.next, IncomingId(i)) = Stamped(Incoming[i])
           /\ \A i \in deduped :
                 /\ MapGet(fout.next, IncomingId(i)) = EntryBefore(i)
                 /\ \E k \in newKeys : MapGet(fout.next, k) = ImportedCopy(Incoming[i], k)
           /\ \A k \in ExistingIds \ { IncomingId(i) : i \in 1..n } :
                 MapGet(fout.next, k) = MapGet(fin.existing, k)

\* an import without overwrite met an id already in the map and kept both
C10_KeptBoth ==
    /\ fstage = "once"
    /\ ~fout.error
    /\ ~fin.overwrite
    /\ fout.deduped = 1
    /\ fout.added = 1
    /\ Len(fout.next) = Len(fin.existing) + 2

(***************************************************************************)
(* C11: an import of a text that is not JSON, or of a file from which no   *)
(* resume is extracted, is rejected with an error message, and the resume  *)
(* map and the current profile are what they were before the call.         *)
(***************************************************************************)
ImportFails == fin.parsed = Throw \/ coerceImportedResumes(fin.parsed) = <<>>

C11_FailedImportLeavesStorage ==
    (fstage = "once" /\ ImportFails) =>
        /\ fout.error
        /\ fout.message # ""
        /\ fout.next = fin.existing
        /\ fout.profile = fin.current

\* a file without resumes was offered while storage held resumes and a
\* current profile
C11_EmptyFileRejected ==
    /\ fstage = "once"
    /\ fin.parsed # Throw
    /\ ImportFails
    /\ fin.existing # <<>>
    /\ fin.current # Null
    /\ fout.error

(***************************************************************************)
(* C12: the lists normalizeResume returns hold, in the order of the raw    *)
(* lists, exactly the normalized entries that meet the required-field      *)
(* contract: experience with non-empty company and position and at least   *)
(* one bullet, education with non-empty institution and degree, projects   *)
(* with non-empty name and description.                                    *)
(***************************************************************************)
NonEmptyText(v) == v.t = "string" /\ v.v # <<>>

ExperienceContract(x) ==
    /\ NonEmptyText(x.v.company)
    /\ NonEmptyText(x.v.position)
    /\ IsArray(x.v.description)
    /\ Len(x.v.description.v) >= 1

EducationContract(e) == NonEmptyText(e.v.institution) /\ NonEmptyText(e.v.degree)

ProjectContract(p) == NonEmptyText(p.v.name) /\ NonEmptyText(p.v.description)

C12_RequiredFieldContract ==
    (fstage # "input" /\ fout.t = "object") =>
        /\ \A i \in 1..Len(fout.v.experience.v) :
               ExperienceContract(fout.v.experience.v[i])
        /\ \A i \in 1..Len(fout.v.education.v) :
               EducationContract(fout.v.education.v[i])
        /\ \A i \in 1..Len(fout.v.projects.v) :
               ProjectContract(fout.v.projects.v[i])
        /\ fout.v.experience.v =
              SelectSeq([i \in 1..Len(fin.v.experience.v) |->
                            normalizeExperienceEntry(fin.v.experience.v[i])],
                        ExperienceContract)
        /\ fout.v.education.v =
              SelectSeq([i \in 1..Len(fin.v.education.v) |->
                            normalizeEducationEntry(fin.v.education.v[i])],
                        EducationContract)
        /\ fout.v.projects.v =
              SelectSeq([i \in 1..Len(fin.v.projects.v) |->
                            normalizeProjectEntry(fin.v.projects.v[i])],
                        ProjectContract)

\* an experience entry with company and position and an empty description
\* was dropped
C12_EntryWithoutBulletsDropped ==
    /\ fstage = "once"
    /\ fout.t = "object"
    /\ Len(fout.v.experience.v) < Len(fin.v.experience.v)
    /\ \E i \in 1..Len(fin.v.experience.v) :
           /\ KeepExperienceAnyDescription(
                  normalizeExperienceEntry(fin.v.experience.v[i]))
           /\ ~ExperienceContract(normalizeExperienceEntry(fin.v.experience.v[i]))

(***************************************************************************)
(* C13: the skills list normalizeResume returns is never empty: it is the  *)
(* list normalizeSkills resolves from the raw skills value when that list  *)
(* is not empty, and the one-element list holding "General Skills" when it *)
(* is empty.                                                               *)
(***************************************************************************)
SentinelSkills == StrArr(<<DefaultSkill>>)

\* the calls made so far, as pairs of argument and result
NormalizeCalls ==
    (IF fstage \in {"once", "twice"} THEN {<<fin, fout>>} ELSE {})
    \cup (IF fstage = "twice" THEN {<<fout, fout2>>} ELSE {})

C13_SkillsNeverEmpty ==
    \A c \in NormalizeCalls :
        c[2].t = "object" =>
            /\ c[2].v.skills.v # <<>>
            /\ normalizeSkills(Get(c[1], "skills")) = <<>>
                  => c[2].v.skills = SentinelSkills
            /\ normalizeSkills(Get(c[1], "skills")) # <<>>
                  => c[2].v.skills = StrArr(normalizeSkills(Get(c[1], "skills")))

\* C13 as stated: the list is the sentinel list exactly when normalizeSkills
\* resolves no skill
C13_SentinelExactlyWhenUnresolved ==
    \A c \in NormalizeCalls :
        c[2].t = "object" =>
            /\ c[2].v.skills.v # <<>>
            /\ c[2].v.skills = SentinelSkills
                  <=> normalizeSkills(Get(c[1], "skills")) = <<>>

\* a resume without a skills value was normalized
C13_FallbackUsed ==
    /\ fstage = "once"
    /\ fout.t = "object"
    /\ normalizeSkills(Get(fin, "skills")) = <<>>
    /\ fout.v.skills = SentinelSkills

(***************************************************************************)
(* normalizeSkills applied to bounded skill lists written in each of the   *)
(* shapes it accepts.                                                      *)
(***************************************************************************)
MaxSkills == 3

\* the skill texts of the inputs: two spellings of one skill, another
\* skill, an empty and a blank text
SkillItems == { TxGo, <<SP>> \o ToLowerCase(TxGo) \o <<SP>>, TxRust, <<>>, <<SP>> }

SkillShapes == {"flat", "string", "map", "objects"}

FirstHalf(items) == SubSeq(items, 1, (Len(items) + 1) \div 2)
SecondHalf(items) == SubSeq(items, (Len(items) + 1) \div 2 + 1, Len(items))

\* the raw skills value that holds items in the given shape
SkillsValue(items, shape) ==
    CASE shape = "flat" -> StrArr(items)
      [] shape = "string" -> Str(Join(items, <<",">>))
      [] shape = "map" ->
            Obj([Languages |-> StrArr(FirstHalf(items)),
                 Tools |-> Str(Join(SecondHalf(items), <<";">>))])
      [] OTHER ->
            Arr(<< Obj([category |-> Str(TxML),
                        skills |-> Str(Join(FirstHalf(items), <<";">>))]),
                   Obj([category |-> Str(TxAI),
                        items |-> Str(Join(SecondHalf(items), <<NL>>))]) >>)

SkillInputs ==
    { [items |-> l, shape |-> sh, raw |-> SkillsValue(l, sh)] :
        l \in SeqsUpTo(SkillItems, MaxSkills), sh \in SkillShapes }

InitSkills ==
    /\ AppFresh
    /\ fin \in SkillInputs
    /\ fout = Null
    /\ fout2 = Null
    /\ fstage = "input"

ApplyNormalizeSkills ==
    /\ fstage = "input"
    /\ fout' = normalizeSkills(fin.raw)
    /\ fstage' = "once"
    /\ UNCHANGED <<fin, fout2, appVars>>

NextSkills == ApplyNormalizeSkills

SpecSkills == InitSkills /\ [][NextSkills]_vars

(***************************************************************************)
(* C14: for each input shape, normalizeSkills returns trimmed non-empty    *)
(* texts, no two equal when case is ignored, one for each distinct skill   *)
(* of the input, in the order in which the skills first occur.             *)
(***************************************************************************)
\* the non-empty trimmed skills of the input, in input order
GivenSkills == FilterNonEmpty(MapTrim(fin.items))

\* item i of GivenSkills is the first with its spelling, case ignored
FirstOccurrence(i) ==
    \A h \in 1..(i - 1) : ToLowerCase(GivenSkills[h]) # ToLowerCase(GivenSkills[i])

FirstOccurrences ==
    SelectSeq([i \in 1..Len(GivenSkills) |->
                  IF FirstOccurrence(i) THEN GivenSkills[i] ELSE <<>>],
              LAMBDA t : t # <<>>)

C14_SkillsDedupedInOrder ==
    fstage = "once" =>
        /\ \A i \in 1..Len(fout) : fout[i] # <<>> /\ TrimText(fout[i]) = fout[i]
        /\ \A i, j \in 1..Len(fout) :
               i # j => ToLowerCase(fout[i]) # ToLowerCase(fout[j])
        /\ fout = FirstOccurrences

\* two spellings of one skill were given and the first one was kept
C14_RepeatDropped ==
    /\ fstage = "once"
    /\ Len(GivenSkills) = 2
    /\ Len(fout) = 1
    /\ fout[1] = GivenSkills[1]
    /\ GivenSkills[2] # GivenSkills[1]

(***************************************************************************)
(* C15: normalizeResume returns a Resume for every object, also when the   *)
(* education, experience or projects list holds entries that are null,     *)
(* primitives or objects without the required fields; it never throws.     *)
(***************************************************************************)
C15_NormalizeNeverThrows ==
    \A c \in NormalizeCalls : c[1].t = "object" => c[2].t = "object"

(***************************************************************************)
(* The popup opened on a resume map that holds one record of any of the    *)
(* bounded raw shapes, as another build or another writer can leave it.    *)
(***************************************************************************)
StoredShapes ==
    { << [k |-> TxId, r |-> Obj([id |-> Str(TxId)] @@ raw.v)] >> : raw \in RawResumes }

InitLoad ==
    /\ FunIdle
    /\ resumes \in StoredShapes
    /\ currentProfile \in {Null, Str(TxId)}
    /\ drafts = <<>>
    /\ loaded = FALSE
    /\ currentResume = Null
    /\ currentProfileId = Null
    /\ editingResumeId = Null
    /\ editingResumeSnapshot = Null
    /\ modalHidden = TRUE
    /\ draftSaveTimer = FALSE
    /\ form = BlankForm
    /\ options = {}
    /\ restores = <<>>
    /\ clock = 0
    /\ idCount = 0
    /\ cleared = {}

NextLoad ==
    \/ DOMContentLoaded
    \/ ClosePopup
    \/ \E v \in {<<>>} \cup options : HandleResumeSelect(v)

SpecLoad == InitLoad /\ [][NextLoad]_vars

(***************************************************************************)
(* C16: whatever the stored records look like, a loadResumes call on the   *)
(* stored map completes, and the selector it fills offers every stored     *)
(* resume.                                                                 *)
(***************************************************************************)
StoredIds(m) == { StringOf(Get(m[i].r, "id")) : i \in 1..Len(m) }

\* ld is the result of a loadResumes call in the current state
LoadCompletes(ld) == ~ld.failed /\ ld.options = StoredIds(resumes)

C16_MigrationNeverBlocksLoad ==
    LoadCompletes(loadResumes(resumes, currentProfile, Now, idCount))

(***************************************************************************)
(* SpecLegacy: isLegacyResume applied to stored records of every shape of  *)
(* each of the five sections it inspects.                                  *)
(***************************************************************************)
LegacyPersonalInfos ==
    { Undef,
      Obj([name |-> Str(TxJane), website |-> Str(TxSite)]),
      Obj([name |-> Str(TxJane), portfolio |-> Str(TxOldSite)]) }

LegacyExperiences ==
    { Undef, Arr(<<>>),
      Arr(<< Obj([company |-> Str(TxAcme), position |-> Str(TxDev)]) >>),
      Arr(<< Obj([employer |-> Str(TxAcme), position |-> Str(TxDev)]) >>),
      Arr(<< Obj([company |-> Str(TxAcme), position |-> Str(TxDev)]),
             Obj([company |-> Str(TxAcme), role |-> Str(TxDev)]) >>),
      Arr(<< Str(TxAcme) >>) }

LegacyProjects ==
    { Undef,
      Arr(<< Obj([name |-> Str(TxTool), link |-> Str(TxDemo),
                  description |-> Str(TxBuiltIt)]) >>),
      Arr(<< Obj([name |-> Str(TxTool), github |-> Str(TxRepo)]) >>),
      Arr(<< Obj([name |-> Str(TxTool),
                  description |-> Arr(<< Str(TxBuiltIt) >>)]) >>) }

LegacySkillValues ==
    { Undef, Str(<<>>), Str(TxGo), Arr(<< Str(TxGo) >>),
      Obj([Languages |-> Arr(<< Str(TxGo) >>)]) }

LegacyEducations ==
    { Undef,
      Arr(<< Obj([institution |-> Str(TxMIT), degree |-> Str(TxBS),
                  achievements |-> Arr(<< Str(TxHonors) >>)]) >>),
      Arr(<< Obj([institution |-> Str(TxMIT), degree |-> Str(TxBS),
                  coursework |-> Arr(<< Str(TxAI) >>)]) >>) }

LegacyInputs ==
    { Obj([personalInfo |-> pi, experience |-> ex, projects |-> pr,
           skills |-> sk, education |-> ed]) :
        pi \in LegacyPersonalInfos, ex \in LegacyExperiences,
        pr \in LegacyProjects, sk \in LegacySkillValues,
        ed \in LegacyEducations }

InitLegacy ==
    /\ AppFresh
    /\ fin \in LegacyInputs
    /\ fout = Null
    /\ fout2 = Null
    /\ fstage = "input"

ApplyIsLegacyResume ==
    /\ fstage = "input"
    /\ fout' = isLegacyResume(fin)
    /\ fstage' = "once"
    /\ UNCHANGED <<fin, fout2, appVars>>

NextLegacy == ApplyIsLegacyResume

SpecLegacy == InitLegacy /\ [][NextLegacy]_vars

(***************************************************************************)
(* C17: isLegacyResume answers true for a record that shows one of the     *)
(* five legacy traits (portfolio inside personalInfo, an experience entry  *)
(* with employer or role, a project entry with github or a description     *)
(* list, a skills value that is not a list, an education entry with        *)
(* coursework), and false for every other record.                          *)
(***************************************************************************)
\* some entry of the list stored under key is an object that satisfies Test
AnyEntry(r, key, Test(_)) ==
    /\ IsArray(Get(r, key))
    /\ \E i \in 1..Len(Get(r, key).v) :
          Get(r, key).v[i].t = "object" /\ Test(Get(r, key).v[i])

PortfolioTrait(r) == HasKey(Get(r, "personalInfo"), "portfolio")
ExperienceTrait(r) ==
    LET Old(x) == HasKey(x, "employer") \/ HasKey(x, "role")
    IN AnyEntry(r, "experience", Old)
ProjectTrait(r) ==
    LET Old(x) == HasKey(x, "github") \/ IsArray(Get(x, "description"))
    IN AnyEntry(r, "projects", Old)
SkillsTrait(r) == Get(r, "skills").t \notin {"undefined", "null", "array"}
EducationTrait(r) ==
    LET Old(x) == HasKey(x, "coursework")
    IN AnyEntry(r, "education", Old)

LegacyTrait(r) ==
    \/ PortfolioTrait(r)
    \/ ExperienceTrait(r)
    \/ ProjectTrait(r)
    \/ SkillsTrait(r)
    \/ EducationTrait(r)

C17_LegacyExactlyOnTraits ==
    fstage = "once" =>
        fout = (IF LegacyTrait(fin) THEN "true" ELSE "false")

(***************************************************************************)
(* C18: a write of a resume id that storage already holds (the import      *)
(* replacing it, as well as a save from the editor or a migration) leaves  *)
(* the createdAt stored under that id as it was.                           *)
(***************************************************************************)
\* every id of the map before that the map after still holds has kept its
\* createdAt
CreatedAtKept(before, after) ==
    \A i \in 1..Len(before) :
        MapHas(after, before[i].k) =>
            Get(MapGet(after, before[i].k), "createdAt")
                = Get(before[i].r, "createdAt")

C18_CreatedAtFixed ==
    (fstage = "once" /\ ~fout.error) => CreatedAtKept(fin.existing, fout.next)

(***************************************************************************)
(* C19: when the editor form is saved, the record that the reload yields   *)
(* and the record left in storage carry, for every experience entry, the   *)
(* bullets that were saved, in the same order: no bullet is merged into    *)
(* another or dropped.                                                     *)
(***************************************************************************)
\* the bullet list of each experience entry of r, in order
BulletLists(r) ==
    [i \in 1..Len(SectionList(Get(r, "experience"))) |->
        Get(SectionList(Get(r, "experience"))[i], "description")]

\* the bullet lists of the resume a submit of the current form saves
SavedBullets ==
    BulletLists(buildResumeFromFormData(form, editingResumeId,
                                        editingResumeSnapshot, Now, FreshId(1)))

C19_BulletsSurviveReload ==
    [][HandleSaveResume =>
          /\ BulletLists(currentResume') = SavedBullets
          /\ BulletLists(MapGet(resumes', StringOf(currentProfile'))) = SavedBullets]_vars

(***************************************************************************)
(* SpecRace: the popup with the loadResumes call that ends an import run   *)
(* one iteration at a time.  Every await of the migration loop hands       *)
(* control back to the event loop, so the handlers of the page (here the   *)
(* select, the delete and the clear buttons) can run between two           *)
(* iterations.  While                                                      *)
(* the loop runs, fin holds what the call keeps in its locals: the entries *)
(* of resumesRaw not yet visited, the map built so far and savedProfileId. *)
(***************************************************************************)
MaxRaceClock == 2

\* handleImportFileChange(e) up to the point where its loadResumes call has
\* read the resume map and the stored profile
ImportThenLoadStart(parsed) ==
    /\ loaded
    /\ modalHidden
    /\ fstage = "idle"
    /\ clock < MaxRaceClock
    /\ LET Imported(res) ==
               /\ ~res.error
               /\ res.c <= MaxIds
               /\ resumes' = res.next
               /\ currentProfile' = res.profile
               /\ idCount' = res.c
               /\ fin' = [pending |-> res.next, mem |-> <<>>,
                          savedProfileId |-> res.profile]
       IN Imported(importResumes(parsed, FALSE, resumes, currentProfile, Now,
                                 idCount))
    /\ clock' = clock + 1
    /\ fstage' = "loop"
    /\ UNCHANGED <<drafts, popupVars, cleared, fout, fout2>>

\* one iteration of the for loop of loadResumes: normalizeResume,
\* isLegacyResume, and storage.saveResume on the map storage holds now
LoadResumesStep ==
    /\ fstage = "loop"
    /\ fin.pending # <<>>
    /\ LET Stepped(st) ==
               /\ resumes' = st.store
               /\ idCount' = st.ids
               /\ IF st.failed
                  THEN fin' = Null /\ fstage' = "idle"
                  ELSE /\ fin' = [fin EXCEPT !.pending = Tail(@), !.mem = st.mem]
                       /\ fstage' = fstage
       IN Stepped(LoadLoop(<< Head(fin.pending) >>,
                           [store |-> resumes, mem |-> fin.mem, failed |-> FALSE,
                            wrote |-> FALSE, ids |-> idCount], Now))
    /\ UNCHANGED <<currentProfile, drafts, popupVars, clock, cleared, fout, fout2>>

\* the rest of loadResumes once the loop is over: the select is filled and
\* the resume of savedProfileId becomes the current one
LoadResumesEnd ==
    /\ fstage = "loop"
    /\ fin.pending = <<>>
    /\ ApplyLoad(LoadResult([store |-> resumes, mem |-> fin.mem, failed |-> FALSE,
                             wrote |-> FALSE, ids |-> idCount],
                            fin.savedProfileId),
                 currentResume, currentProfileId, fin.savedProfileId, FALSE)
    /\ fin' = Null
    /\ fstage' = "idle"
    /\ UNCHANGED <<currentProfile, drafts, loaded, editingResumeId,
                   editingResumeSnapshot, modalHidden, draftSaveTimer, form,
                   restores, cleared, fout, fout2>>

\* the popup opened on storage that holds resumes saved earlier
InitRace ==
    /\ FunIdle
    /\ resumes \in StoredMaps
    /\ currentProfile \in {Null} \cup { Str(k) : k \in StoredIds(resumes) }
    /\ drafts = <<>>
    /\ loaded = FALSE
    /\ currentResume = Null
    /\ currentProfileId = Null
    /\ editingResumeId = Null
    /\ editingResumeSnapshot = Null
    /\ modalHidden = TRUE
    /\ draftSaveTimer = FALSE
    /\ form = BlankForm
    /\ options = {}
    /\ restores = <<>>
    /\ clock = 0
    /\ idCount = 0
    /\ cleared = {}

NextRace ==
    \/ DOMContentLoaded
    \/ \E v \in {<<>>} \cup options : HandleResumeSelect(v)
    \/ HandleDeleteResume
    \/ HandleClearStorage
    \/ \E parsed \in ImportFiles : ImportThenLoadStart(parsed)
    \/ LoadResumesStep
    \/ LoadResumesEnd

SpecRace == InitRace /\ [][NextRace]_vars

(***************************************************************************)
(* C20: an iteration of the migration loop never puts into storage a       *)
(* resume id that storage does not hold when the iteration runs: a resume  *)
(* deleted after the loop read the map is not written back.                *)
(***************************************************************************)
C20_DeletedStaysRemoved ==
    [][LoadResumesStep => StoredIds(resumes') \subseteq StoredIds(resumes)]_vars

(***************************************************************************)
(* SpecSession: the editor and its drafts as in SpecUpgrade, with a record *)
(* of the debounce window: fin is the draft key of the editing session in  *)
(* which the timer was armed, fout the form state the last input event of  *)
(* the window left and the states its earlier input events left (an input  *)
(* that finds the timer pending resets it and extends the window).  The    *)
(* popup stays open on the profile it loaded.                              *)
(***************************************************************************)
\* an input event whose handler stores the draft at once, without a timer
FormInputWritesThrough(f) ==
    /\ loaded
    /\ ~modalHidden
    /\ form' = f
    /\ draftSaveTimer' = FALSE
    /\ cleared' = {}
    /\ drafts' = saveResumeDraft(drafts, getDraftKey(editingResumeId),
                                 NewDraft(collectResumeFormState(f), editingResumeId))
    /\ fin' = Str(getDraftKey(editingResumeId))
    /\ fout' = [last |-> f, earlier |-> IF draftSaveTimer THEN fout.earlier \cup {fout.last} ELSE {}]
    /\ fstage' = "window"
    /\ UNCHANGED <<resumes, currentProfile, loaded, currentResume, currentProfileId,
                   editingResumeId, editingResumeSnapshot, modalHidden, options,
                   restores, envVars, fout2>>

\* an 'input' event on the form leaves it showing f: queueSaveDraft(), the
\* timer being armed while the editor is open on getDraftKey()
FormInputOnKey(f) ==
    /\ loaded
    /\ ~modalHidden
    /\ form' = f
    /\ draftSaveTimer' = TRUE
    /\ cleared' = {}
    /\ fin' = Str(getDraftKey(editingResumeId))
    /\ fout' = [last |-> f, earlier |-> IF draftSaveTimer THEN fout.earlier \cup {fout.last} ELSE {}]
    /\ fstage' = "window"
    /\ UNCHANGED <<storageVars, loaded, currentResume, currentProfileId,
                   editingResumeId, editingResumeSnapshot, modalHidden, options,
                   restores, envVars, fout2>>

NextSession ==
    \/ DOMContentLoaded
    \/ OpenModalNew
    \/ OpenModalEdit
    \/ RestoreDraft
    \/ closeModal
    \/ \E f \in FormInputs : FormInputOnKey(f)
    \/ DraftTimerFire
    \/ HandleClearDraft

SpecSession == InitUpgrade /\ [][NextSession]_vars

(***************************************************************************)
(* C21: when the debounce callback changes the stored drafts, the draft    *)
(* key it writes under is the key of the editing session in which the      *)
(* timer was armed, never the key of a session opened since.               *)
(***************************************************************************)
C21_TimerWritesOwnSession ==
    [][(DraftTimerFire /\ drafts' # drafts)
          => fin = Str(getDraftKey(editingResumeId))]_vars

(***************************************************************************)
(* SpecOverlap: two storage mutations of the resume map issued by two      *)
(* contexts of the extension.  Each mutation awaits getResumes(), computes *)
(* the next map from what it read, and awaits setObject(); the other       *)
(* context can run between the two awaits.  fin[c] holds the call of       *)
(* context c, its position and the map it read.                            *)
(***************************************************************************)
Contexts == {1, 2}

\* the calls of context 1: saveResume for id r1
FirstCalls ==
    { [kind |-> "save", arg |-> Obj([id |-> Str(TxId), name |-> Str(n)] @@ BaseRaw)] :
        n \in {TxJane, TxBob} }

\* the calls of context 2: saveResume for id r2, deleteResume("r2"), and the
\* import of a file holding one resume with id r2
SecondCalls ==
    { [kind |-> "save", arg |-> Obj([id |-> Str(TxId2), name |-> Str(TxBob)] @@ BaseRaw)],
      [kind |-> "delete", arg |-> Str(TxId2)],
      [kind |-> "import",
       arg |-> Arr(<< Obj([id |-> Str(TxId2), name |-> Str(TxBob)] @@ BaseRaw) >>)] }

\* what the call stores, computed from the map m it read: the resume map,
\* and the current profile (the import picks one when there is none, the
\* delete resets it when it names the deleted resume)
Mutated(call, m) ==
    CASE call.kind = "save" ->
             [map |-> saveResume(m, call.arg, TimeText(1), FreshId(1)),
              profile |-> currentProfile]
      [] call.kind = "delete" ->
             [map |-> deleteResume(m, StringOf(call.arg)),
              profile |-> IF currentProfile = call.arg THEN Null ELSE currentProfile]
      [] OTHER ->
             LET Stored(res) == [map |-> res.next, profile |-> res.profile]
             IN Stored(importResumes(call.arg, FALSE, m, currentProfile,
                                     TimeText(1), 0))

InitOverlap ==
    /\ resumes \in StoredMaps
    /\ currentProfile \in {Null} \cup { Str(k) : k \in StoredIds(resumes) }
    /\ drafts = <<>>
    /\ loaded = FALSE
    /\ currentResume = Null
    /\ currentProfileId = Null
    /\ editingResumeId = Null
    /\ editingResumeSnapshot = Null
    /\ modalHidden = TRUE
    /\ draftSaveTimer = FALSE
    /\ form = BlankForm
    /\ options = {}
    /\ restores = <<>>
    /\ clock = 0
    /\ idCount = 0
    /\ cleared = {}
    /\ \E c1 \in FirstCalls, c2 \in SecondCalls :
          fin = (1 :> [call |-> c1, pc |-> "start", read |-> <<>>])
                @@ (2 :> [call |-> c2, pc |-> "start", read |-> <<>>])
    /\ fout = Null
    /\ fout2 = Null
    /\ fstage = "overlap"

\* `const resumes = await this.getResumes()` of context c completes
ReadMap(c) ==
    /\ fstage = "overlap"
    /\ fin[c].pc = "start"
    /\ fin' = [fin EXCEPT ![c].pc = "read", ![c].read = resumes]
    /\ UNCHANGED <<fout, fout2, fstage, appVars>>

\* `await setObject(KEYS.resumes, ...)` of context c completes, and the
\* call runs to its end
WriteMap(c) ==
    /\ fstage = "overlap"
    /\ fin[c].pc = "read"
    /\ LET Store(w) == resumes' = w.map /\ currentProfile' = w.profile
       IN Store(Mutated(fin[c].call, fin[c].read))
    /\ fin' = [fin EXCEPT ![c].pc = "done"]
    /\ UNCHANGED <<drafts, popupVars, envVars, cleared, fout, fout2, fstage>>

NextOverlap == \E c \in Contexts : ReadMap(c) \/ WriteMap(c)

SpecOverlap == InitOverlap /\ [][NextOverlap]_vars

(***************************************************************************)
(* C22: when the two overlapping mutations have both completed, the stored *)
(* map reflects both: a saved or imported id is in the map, a deleted id   *)
(* is not.                                                                 *)
(***************************************************************************)
Reflected(call, m) ==
    CASE call.kind = "save" -> MapHas(m, StringOf(Get(call.arg, "id")))
      [] call.kind = "delete" -> ~MapHas(m, StringOf(call.arg))
      [] OTHER -> MapHas(m, TxId2)

C22_NoLostUpdate ==
    (fstage = "overlap" /\ \A c \in Contexts : fin[c].pc = "done")
        => \A c \in Contexts : Reflected(fin[c].call, resumes)

(***************************************************************************)
(* SpecEntry: the three normalization entry points (normalizeResume on     *)
(* load, populateForm on form population, normalizeResumeShape on save)    *)
(* applied to raw records in which every reconciled field is present under *)
(* both its current and its legacy name.                                   *)
(***************************************************************************)
DualExperienceEntries ==
    { Obj([company |-> Str(c), employer |-> Str(TxAcme),
           position |-> Str(q), role |-> Str(TxEng),
           description |-> StrArr(<<TxBuiltIt>>)]) :
        c \in {<<>>, TxAcme2}, q \in {<<>>, TxDev} }

DualProjectEntries ==
    { Obj([name |-> Str(TxTool), link |-> Str(l), github |-> Str(TxRepo),
           description |-> Str(TxBuiltIt)]) : l \in {<<>>, TxDemo} }

DualEducationEntries ==
    { Obj([institution |-> Str(TxMIT), degree |-> Str(TxBS),
           achievements |-> a, coursework |-> StrArr(<<TxAI>>)]) :
        a \in {Arr(<<>>), StrArr(<<TxHonors>>)} }

DualPersonalInfos ==
    { Obj([name |-> Str(TxJane), email |-> Str(TxMail),
           website |-> Str(w), portfolio |-> Str(TxOldSite)]) :
        w \in {<<>>, TxSite} }

DualResumes ==
    { Obj([BaseRaw EXCEPT !.personalInfo = pi, !.experience = Arr(<<x>>),
                          !.projects = Arr(<<p>>), !.education = Arr(<<e>>)]) :
        pi \in DualPersonalInfos, x \in DualExperienceEntries,
        p \in DualProjectEntries, e \in DualEducationEntries }

EntryPoints == {"load", "form", "save"}

InitEntry ==
    /\ AppFresh
    /\ fin \in DualResumes
    /\ fout = [load |-> Null, form |-> BlankForm, save |-> Null]
    /\ fout2 = {}
    /\ fstage = "entry"

\* loadResumes: normalizeResume(r)
ApplyOnLoad ==
    /\ fstage = "entry"
    /\ "load" \notin fout2
    /\ fout' = [fout EXCEPT !.load = normalizeResume(fin, TimeText(1), FreshId(1))]
    /\ fout2' = fout2 \cup {"load"}
    /\ UNCHANGED <<fin, fstage, appVars>>

\* openModal: populateForm(resume)
ApplyOnPopulate ==
    /\ fstage = "entry"
    /\ "form" \notin fout2
    /\ fout' = [fout EXCEPT !.form = populateForm(fin)]
    /\ fout2' = fout2 \cup {"form"}
    /\ UNCHANGED <<fin, fstage, appVars>>

\* storage.saveResume: normalizeResumeShape(resume)
ApplyOnSave ==
    /\ fstage = "entry"
    /\ "save" \notin fout2
    /\ fout' = [fout EXCEPT !.save = normalizeResumeShape(fin, TimeText(1), FreshId(1))]
    /\ fout2' = fout2 \cup {"save"}
    /\ UNCHANGED <<fin, fstage, appVars>>

NextEntry == ApplyOnLoad \/ ApplyOnPopulate \/ ApplyOnSave

SpecEntry == InitEntry /\ [][NextEntry]_vars

(***************************************************************************)
(* C23: for a raw record that carries every reconciled field under both    *)
(* names, each entry point chooses, for every pair, the current name's     *)
(* value when it is non-empty and the legacy name's value otherwise, so    *)
(* the three entry points choose the same values.                          *)
(***************************************************************************)
\* the text of field key of the first entry of the section, empty when the
\* section has no entry or the field holds no text
FirstText(r, section, key) ==
    LET Text(x) == IF x.t = "string" THEN x.v ELSE <<>>
        In(list) == IF list = <<>> THEN <<>> ELSE Text(Get(list[1], key))
    IN In(SectionList(Get(r, section)))

\* the same for a list of texts, shown as the editor shows it
FirstList(r, section, key) ==
    LET Shown(x) == IF IsArray(x) THEN JoinValues(x.v, EscapedNewline) ELSE <<>>
        In(list) == IF list = <<>> THEN <<>> ELSE Shown(Get(list[1], key))
    IN In(SectionList(Get(r, section)))

FirstOf(list, key) == IF list = <<>> THEN <<>> ELSE list[1][key]

\* the values the raw record raw is to resolve to
ExpectedChoice(raw) ==
    [company |-> ResolvedText(raw.v.experience.v[1], "company", "employer"),
     position |-> ResolvedText(raw.v.experience.v[1], "position", "role"),
     link |-> ResolvedText(raw.v.projects.v[1], "link", "github"),
     website |-> ResolvedText(raw.v.personalInfo, "website", "portfolio"),
     achievements |->
         JoinValues(ResolvedList(raw.v.education.v[1], "achievements",
                                 "coursework").v, EscapedNewline)]

\* the values each entry point chose
ChosenOnLoad(r) ==
    [company |-> FirstText(r, "experience", "company"),
     position |-> FirstText(r, "experience", "position"),
     link |-> FirstText(r, "projects", "link"),
     website |-> safeString(Get(Get(r, "personalInfo"), "website")),
     achievements |-> FirstList(r, "education", "achievements")]

ChosenOnForm(f) ==
    [company |-> FirstOf(f.experience, "employer"),
     position |-> FirstOf(f.experience, "role"),
     link |-> FirstOf(f.projects, "github"),
     website |-> f.portfolio,
     achievements |-> FirstOf(f.education, "coursework")]

ChosenOnSave(r) ==
    [company |-> FirstText(r, "experience", "employer"),
     position |-> FirstText(r, "experience", "role"),
     link |-> FirstText(r, "projects", "github"),
     website |-> safeString(Get(Get(r, "personalInfo"), "portfolio")),
     achievements |-> FirstList(r, "education", "coursework")]

C23_UniformPrecedence ==
    fstage = "entry" =>
        /\ "load" \in fout2 => ChosenOnLoad(fout.load) = ExpectedChoice(fin)
        /\ "form" \in fout2 => ChosenOnForm(fout.form) = ExpectedChoice(fin)
        /\ "save" \in fout2 => ChosenOnSave(fout.save) = ExpectedChoice(fin)

(***************************************************************************)
(* C24: the storage read of a restore that completes after the editor has  *)
(* been opened again on another draft key leaves the form as the current   *)
(* session has it: only the restore of the session that is open fills the  *)
(* form.                                                                   *)
(***************************************************************************)
C24_LateRestoreKeepsForm ==
    [][(RestoreDraft /\ Head(restores).key # getDraftKey(editingResumeId))
          => form' = form]_vars

(***************************************************************************)
(* C25: the input events of a debounce window write nothing themselves;    *)
(* the one callback left pending runs after the last of them and stores    *)
(* under the draft key a draft holding the form state the last input left; *)
(* no callback is pending afterwards and no other draft is touched.  The   *)
(* window is one in which the editor stayed open on the key the timer was  *)
(* armed on and only input events changed the form.                        *)
(***************************************************************************)
\* the callback runs at the end of an undisturbed window
WindowEnds ==
    /\ DraftTimerFire
    /\ ~modalHidden
    /\ fin = Str(getDraftKey(editingResumeId))
    /\ form = fout.last

C25_OneWriteOfLastState ==
    [][/\ (\E f \in FormInputs : FormInputOnKey(f)) => drafts' = drafts
       /\ WindowEnds =>
             /\ ~draftSaveTimer'
             /\ getDraftKey(editingResumeId) \in DOMAIN drafts'
             /\ Get(drafts'[getDraftKey(editingResumeId)], "data")
                   = collectResumeFormState(fout.last)
             /\ \A k \in DOMAIN drafts \ {getDraftKey(editingResumeId)} :
                   k \in DOMAIN drafts' /\ drafts'[k] = drafts[k]]_vars

\* a window of several inputs, one of which left another form state than the
\* last, has ended, and the draft stored is the one of the last
C25_WindowOfTwoStored ==
    /\ ~draftSaveTimer
    /\ ~modalHidden
    /\ fstage = "window"
    /\ \E f \in fout.earlier : f # fout.last
    /\ form = fout.last
    /\ getDraftKey(editingResumeId) \in DOMAIN drafts
    /\ Get(drafts[getDraftKey(editingResumeId)], "data") = collectResumeFormState(fout.last)

(***************************************************************************)
(* SpecStore: the storage API called in sequence on storage that starts    *)
(* empty: saveResume, deleteResume and importResumesFromJSONText with      *)
(* either overwrite setting, each call running to its end before the next. *)
(* The clock stops at MaxClock: later calls read the time of the last tick.*)
(***************************************************************************)
TxPaddedId == <<SP>> \o TxId \o <<SP>>

\* the resumes handed to saveResume: id r1, the same id with blanks around
\* it, and none
SaveInputs ==
    { Obj([id |-> Str(TxId), name |-> Str(TxJane)] @@ BaseRaw),
      Obj([id |-> Str(TxPaddedId), name |-> Str(TxBob)] @@ BaseRaw),
      Obj([name |-> Str(TxBob)] @@ BaseRaw) }

\* the parsed files handed to the import: lists of the record with id r1
\* and the record without an id, and the record with id r2 alone
StoreFiles ==
    { Arr(l) : l \in SeqsUpTo({ r \in FileRecords : Get(r, "id") # Str(TxId2) },
                              MaxImported) \ {<<>>} }
    \cup { Arr(<<r>>) : r \in FileRecords }

InitStore ==
    /\ AppFresh
    /\ fin = Null
    /\ fout = Null
    /\ fout2 = Null
    /\ fstage = "store"

Tick == clock' = IF CanStamp THEN clock + 1 ELSE clock

\* await storage.saveResume(resume)
StoreSave(resume) ==
    /\ fstage = "store"
    /\ safeString(Get(resume, "id")) = <<>> => idCount < MaxIds
    /\ resumes' = saveResume(resumes, resume, Now, FreshId(idCount + 1))
    /\ idCount' = IF safeString(Get(resume, "id")) = <<>> THEN idCount + 1 ELSE idCount
    /\ Tick
    /\ UNCHANGED <<currentProfile, drafts, popupVars, cleared, funVars>>

\* await storage.deleteResume(id)
StoreDelete(id) ==
    /\ fstage = "store"
    /\ resumes' = deleteResume(resumes, id)
    /\ currentProfile' = IF currentProfile = Str(id) THEN Null ELSE currentProfile
    /\ UNCHANGED <<drafts, popupVars, envVars, cleared, funVars>>

\* await storage.importResumesFromJSONText(text, { overwrite })
StoreImport(parsed, overwrite) ==
    /\ fstage = "store"
    /\ LET Store(res) ==
               /\ res.c <= MaxIds
               /\ resumes' = res.next
               /\ currentProfile' = res.profile
               /\ idCount' = res.c
       IN Store(importResumes(parsed, overwrite, resumes, currentProfile, Now, idCount))
    /\ Tick
    /\ UNCHANGED <<drafts, popupVars, cleared, funVars>>

NextStore ==
    \/ \E r \in SaveInputs : StoreSave(r)
    \/ \E id \in StoredIds(resumes) \cup {TxId2} : StoreDelete(id)
    \/ \E f \in StoreFiles, o \in BOOLEAN : StoreImport(f, o)

SpecStore == InitStore /\ [][NextStore]_vars

(***************************************************************************)
(* C26: every entry of the stored resume map is filed under its own id:    *)
(* the id field of the record stored under key k is the string k.          *)
(***************************************************************************)
C26_FiledUnderOwnId ==
    fstage = "store" =>
        \A i \in 1..Len(resumes) : Get(resumes[i].r, "id") = Str(resumes[i].k)

\* the map holds a record saved with a padded id, filed under the trimmed
\* id, next to a record an import filed under a generated id
C26_TrimmedAndGeneratedKeys ==
    /\ fstage = "store"
    /\ MapHas(resumes, TxId)
    /\ Get(MapGet(resumes, TxId), "name") = Str(TxBob)
    /\ MapHas(resumes, StringOf(FreshId(1)))
    /\ Get(MapGet(resumes, StringOf(FreshId(1))), "name") = Str(TxJane \o ImportedSuffix)

(***************************************************************************)
(* SpecProfile: the popup of a fresh install with the operations that      *)
(* write the resume map or the current profile (select, save, delete,      *)
(* import, clear stored data), the editor being opened and filled for the  *)
(* save.                                                                   *)
(***************************************************************************)
NextProfile ==
    \/ DOMContentLoaded
    \/ ClosePopup
    \/ \E v \in {<<>>} \cup options : HandleResumeSelect(v)
    \/ OpenModalNew
    \/ OpenModalEdit
    \/ RestoreDraft
    \/ closeModal
    \/ \E f \in FormInputs : FormInput(f)
    \/ HandleSaveResume
    \/ HandleDeleteResume
    \/ \E parsed \in ImportFiles : HandleImportFileChange(parsed)
    \/ HandleClearStorage

SpecProfile == Init /\ [][NextProfile]_vars

MergeLines ==
    { <<"d","i","d",SP,SP,"i","t">>,
      <<"a","n","d",SP,"t","h","e","n",SP>> \o LongBody,
      <<"J","a","v","a">>,
      SubSeq(LongBody, 1, 19),
      LongBody,
      <<"2","x",SP,"f","a","s","t","e","r">>,
      <<"-",SP,"G","o">>,
      <<"1",".",SP,"G","o">> }
    \cup { <<"D","o","n","e">> \o <<c>> : c \in {".", "!", "?", ";", ":", ","} }

InitMerge ==
    /\ AppFresh
    /\ fin \in SeqsUpTo(MergeLines, MaxLines) \ {<<>>}
    /\ fout = <<>>
    /\ fout2 = Null
    /\ fstage = "lines"

\* for (const line0 of lines) { ... }: one iteration
ParseLine ==
    /\ fstage \in {"lines", "merge"}
    /\ fin # <<>>
    /\ fout' = BulletStep(fout, Head(fin))
    /\ fout2' = [line |-> Head(fin), before |-> fout]
    /\ fin' = Tail(fin)
    /\ fstage' = "merge"
    /\ UNCHANGED appVars

NextMerge == ParseLine

SpecMerge == InitMerge /\ [][NextMerge]_vars

(***************************************************************************)
(* C29: a line that is not bullet-initiated and follows an existing bullet *)
(* is merged into the previous bullet, joined by a single space and with   *)
(* every run of whitespace collapsed to one blank, exactly when it starts  *)
(* with a lowercase letter (a to z), or is shorter than 20 characters      *)
(* while the previous bullet does not end in . ! ? ; or : ; otherwise it   *)
(* starts a new bullet.  A line that is not bullet-initiated and finds no  *)
(* bullet starts the first one.                                            *)
(***************************************************************************)
\* the rule as stated, for the line and the bullets found
MergeExpected(line, before) ==
    LET prev == before[Len(before)]
    IN \/ line[1] \in LowerChars
       \/ Len(line) < 20 /\ prev[Len(prev)] \notin {".", "!", "?", ";", ":"}

C29_MergeRule ==
    (fstage = "merge" /\ BulletStartLen(fout2.line) = 0) =>
        IF fout2.before = <<>> THEN fout = << fout2.line >>
        ELSE IF MergeExpected(fout2.line, fout2.before)
        THEN fout = [fout2.before EXCEPT ![Len(fout2.before)] =
                        CollapseWs(@ \o <<SP>> \o fout2.line)]
        ELSE fout = Append(fout2.before, fout2.line)

\* a short line that starts with a capital was merged into a bullet ending
\* in a comma
C29_ShortFragmentMerged ==
    /\ fstage = "merge"
    /\ fout2.line = <<"J","a","v","a">>
    /\ fout2.before = << <<"D","o","n","e",",">> >>
    /\ fout = << <<"D","o","n","e",",",SP,"J","a","v","a">> >>

(***************************************************************************)
(* C28: the import takes a raw array as its elements, a backup envelope    *)
(* (resumes a list or a map keyed by id) as the resumes it holds, and a    *)
(* single resume object (one with personal info, experience, education or  *)
(* projects) as a list of one.  It fails when the text is not JSON, when   *)
(* the parsed value has none of the three shapes, and also when the shape  *)
(* found holds no resume.                                                  *)
(***************************************************************************)
RawArrayShape(p) == p.t = "array"
EnvelopeShape(p) == p.t = "object" /\ Get(p, "resumes").t \in {"array", "object"}
SingleResumeShape(p) ==
    /\ p.t = "object"
    /\ ~EnvelopeShape(p)
    /\ \E section \in {"personalInfo", "experience", "education", "projects"} :
          Truthy(Get(p, section))
SomeShape(p) == RawArrayShape(p) \/ EnvelopeShape(p) \/ SingleResumeShape(p)

\* the resumes the file holds, by shape
Contained(p) ==
    IF RawArrayShape(p) THEN p.v
    ELSE IF EnvelopeShape(p)
    THEN IF Get(p, "resumes").t = "array" THEN Get(p, "resumes").v
         ELSE ObjectValues(Get(p, "resumes"))
    ELSE IF SingleResumeShape(p) THEN <<p>>
    ELSE <<>>

C28_ShapesAndFailure ==
    fstage = "once" =>
        IF fin.parsed = Throw THEN fout.error
        ELSE /\ coerceImportedResumes(fin.parsed) = Contained(fin.parsed)
             /\ fout.error <=> (~SomeShape(fin.parsed) \/ Contained(fin.parsed) = <<>>)
             /\ ~fout.error => fout.total = Len(Contained(fin.parsed))

\* the statement as given: the import fails only when no shape matches
C28_FailsOnlyWithoutShape ==
    (fstage = "once" /\ fout.error) => ~SomeShape(fin.parsed)

\* a single resume object was imported as one resume
C28_SingleResumeImported ==
    /\ fstage = "once"
    /\ SingleResumeShape(fin.parsed)
    /\ ~fout.error
    /\ fout.total = 1
    /\ Len(fout.next) = Len(fin.existing) + 1

(***************************************************************************)
(* C30: a Resume returned by normalizeResume is never legacy-shaped:       *)
(* isLegacyResume answers false on it, on the first and on a repeated      *)
(* normalization.                                                          *)
(***************************************************************************)
C30_OutputNotLegacy ==
    /\ (fstage \in {"once", "twice"} /\ fout.t = "object") => isLegacyResume(fout) = "false"
    /\ (fstage = "twice" /\ fout2.t = "object") => isLegacyResume(fout2) = "false"

\* a legacy-shaped record with a project kept was normalized into a Resume
C30_LegacyInputNormalized ==
    /\ fstage = "once"
    /\ isLegacyResume(fin) = "true"
    /\ fout.t = "object"
    /\ Len(Get(fout, "projects").v) >= 1
    /\ isLegacyResume(fout) = "false"

====
